---- MODULE Spec2Model ----
(***************************************************************************)
(* Layout/geometry computations of the box-and-whisker chart plugin:       *)
(*   - the measure-axis range (yAxisConfig in the first chart component,   *)
(*     measureAxisConfig with roundToNiceNumber in the second),            *)
(*   - the label-truncation formatter (createSmartTruncationFormatter).    *)
(*                                                                         *)
(* Numbers.  A JavaScript number is modelled as a record                   *)
(*   [t |-> "fin", v |-> n]   the finite value n / Scale (fixed point),    *)
(*   [t |-> "inf", v |-> 1]   Infinity,   [t |-> "inf", v |-> -1]          *)
(*   -Infinity,   [t |-> "nan", v |-> 0]  NaN.                             *)
(* Arithmetic on finite values is exact (a product with a decimal literal  *)
(* is floored to the fixed-point grid); a result whose magnitude exceeds   *)
(* MaxFinite overflows to +-Infinity as an IEEE double does beyond         *)
(* Number.MAX_VALUE.  Binary rounding error of doubles is not modelled,    *)
(* and -0 is identified with 0.                                            *)
(***************************************************************************)
EXTENDS Integers, Sequences, FiniteSets, TLC

\* Fixed-point denominator: a finite number is held in thousandths.
Scale == 10 * 10 * 10

\* Largest finite magnitude (in thousandths); stands for Number.MAX_VALUE.
MaxFinite == 17970000

\* Largest number of quintuples in a data set.
MaxRows == 2

\* Largest number of categories offered to the formatter.
MaxCategories == 3

\* Longest label offered to the formatter.
MaxLabelLen == 12

VARIABLES
    boxplotValues,      \* props: the sequence of [min, Q1, median, Q3, max] arrays
    axisPhase,          \* "props" before the axis memo ran, "memo" after
    yAxisConfig,        \* memo of the first component (no rounding)
    measureAxisConfig,  \* memo of the second component (nice-number rounding)
    niceValue,          \* argument value of roundToNiceNumber
    niceRoundUp,        \* argument roundUp of roundToNiceNumber
    nicePhase,          \* "args" before the call, "returned" after
    niceResult,         \* value returned by roundToNiceNumber
    categoriesLength,        \* categories.length
    attributeLabelRotation,  \* parseInt(config.attributeLabelRotation || '0', 10)
    attributeAxisFontSize,   \* parseInt of the attribute-axis font size, default 12
    chartPadding,            \* parseFloat(config.chartPadding || '10'), a rational
    containerWidth,          \* useState(1000), then offsetWidth
    containerHeight,         \* useState(600), then offsetHeight
    formatterPhase,          \* "props", "memo" once the formatter is built, "called", "recalled"
    formatter,               \* the memoized formatter (its captured budget)
    label,                   \* the argument of the last formatter call
    formattedFirst,          \* its result in the first component
    formattedSecond,         \* its result in the second component
    reformattedFirst,        \* the first component's formatter on formattedFirst
    reformattedSecond,       \* the second component's formatter on formattedSecond
    categories,              \* data.map(item => item.name), as label strings
    orientation,             \* config.orientation || 'vertical' (second component)
    tooltipPhase,            \* "idle" until the tooltip formatter is called, then "shown"
    tooltipParams,           \* the params of the last tooltip formatter call
    tooltipFirst,            \* what the first component's tooltip formatter returned
    tooltipSecond,           \* what the second component's tooltip formatter returned
    config,                  \* useConfig(): the source and the six column mappings
    sigmaData,               \* useElementData(): column id -> array of cells, or absent
    appPhase,                \* "hooks" before App renders, "rendered" after
    boxplotData,             \* what the boxplotData memo returned
    appView,                 \* what App returned: an empty-state message or "chart"
    formatterDeps,           \* the dependency array the formatter memo was last computed for
    axisDeps,                \* the dependency array the axis memos were last computed for
    configId,                \* identity of the object useConfig() last returned
    sigmaDataId,             \* identity of the object useElementData() last returned
    appDeps,                 \* the dependency array boxplotData was last computed for
    transformRuns,           \* how many times the boxplotData memo callback has run
    instance,                \* how many chart components have been mounted; the last one's id
    mounted,                 \* the chart component with id instance is mounted
    chartReady,              \* chartRef.current holds the chart of the mounted component
    listeners,               \* the 'resize' listeners registered on window
    timers,                  \* the pending timeouts
    effectTimer,             \* the timeout the cleanup of the last redraw effect clears
    effectRuns,              \* how many times the redraw effect has run
    lastFired                \* the timeout that fired last, and when

axisVars == <<boxplotValues, axisPhase, yAxisConfig, measureAxisConfig>>
niceVars == <<niceValue, niceRoundUp, nicePhase, niceResult>>
propVars == <<categoriesLength, attributeLabelRotation, attributeAxisFontSize,
              chartPadding, containerWidth, containerHeight>>
formatterVars == <<propVars, formatterPhase, formatter, label, formattedFirst, formattedSecond,
                   reformattedFirst, reformattedSecond>>
tooltipVars == <<categories, orientation, tooltipPhase, tooltipParams, tooltipFirst, tooltipSecond>>
appVars == <<config, sigmaData, appPhase, boxplotData, appView>>
memoVars == <<formatterDeps, axisDeps>>
hostVars == <<configId, sigmaDataId, appDeps, transformRuns>>
domVars == <<instance, mounted, chartReady, listeners, timers, effectTimer, effectRuns, lastFired>>
extraVars == <<hostVars, domVars>>
laterVars == <<tooltipVars, appVars, memoVars, extraVars>>
vars == <<axisVars, niceVars, formatterVars, laterVars>>

---------------------------------------------------------------------------
(* JavaScript numbers *)

Fin(n) == [t |-> "fin", v |-> n]
PosInf == [t |-> "inf", v |-> 1]
NegInf == [t |-> "inf", v |-> -1]
NaN == [t |-> "nan", v |-> 0]
Undefined == [t |-> "undefined", v |-> 0]

\* A whole number k as a model number.
Num(k) == Fin(k * Scale)

\* The double nearest to the exact result n: overflow gives +-Infinity.
Norm(n) == IF n > MaxFinite THEN PosInf ELSE IF n < -MaxFinite THEN NegInf ELSE Fin(n)

isFinite(x) == x.t = "fin"
isNaN(x) == x.t = "nan"

\* Position of a non-NaN number in the order of the extended reals.
Ord(x) == IF x.t = "fin" THEN x.v ELSE x.v * (MaxFinite + 1)

Lt(a, b) == ~isNaN(a) /\ ~isNaN(b) /\ Ord(a) < Ord(b)
Le(a, b) == ~isNaN(a) /\ ~isNaN(b) /\ Ord(a) <= Ord(b)
Gt(a, b) == Lt(b, a)
Ge(a, b) == Le(b, a)

Neg(a) == IF a.t = "nan" THEN NaN ELSE [t |-> a.t, v |-> -a.v]

Add(a, b) ==
    IF isNaN(a) \/ isNaN(b) THEN NaN
    ELSE IF a.t = "inf" /\ b.t = "inf" THEN (IF a.v = b.v THEN a ELSE NaN)
    ELSE IF a.t = "inf" THEN a
    ELSE IF b.t = "inf" THEN b
    ELSE Norm(a.v + b.v)

Sub(a, b) == Add(a, Neg(b))

\* a * (num / den) for a positive decimal literal num / den.
MulLit(a, num, den) ==
    IF a.t = "fin" THEN Norm((a.v * num) \div den) ELSE a

MathAbs(a) == IF a.t = "nan" THEN NaN ELSE [t |-> a.t, v |-> IF a.v < 0 THEN -a.v ELSE a.v]

MathMax(a, b) ==
    IF isNaN(a) \/ isNaN(b) THEN NaN ELSE IF Ord(a) >= Ord(b) THEN a ELSE b

RECURSIVE Pow10(_)
Pow10(e) == IF e = 0 THEN 1 ELSE 10 * Pow10(e - 1)

\* floor(log10(n)) for an integer n >= 1.
RECURSIVE Log10Floor(_)
Log10Floor(n) == IF n < 10 THEN 0 ELSE 1 + Log10Floor(n \div 10)

CeilDiv(n, d) == (n + d - 1) \div d

RECURSIVE GCD(_, _)
GCD(a, b) == IF b = 0 THEN a ELSE GCD(b, a % b)

\* Exact rationals n / d with d > 0, kept in lowest terms.
Rat(n, d) ==
    LET g == GCD(IF n < 0 THEN -n ELSE n, d) IN
    IF n = 0 THEN [n |-> 0, d |-> 1] ELSE [n |-> n \div g, d |-> d \div g]

Int2Rat(k) == Rat(k, 1)
RSub(a, b) == Rat(a.n * b.d - b.n * a.d, a.d * b.d)
RMul(a, b) == Rat(a.n * b.n, a.d * b.d)
\* a / b for b # 0.
RDiv(a, b) == IF b.n > 0 THEN Rat(a.n * b.d, a.d * b.n) ELSE Rat(-(a.n * b.d), a.d * (-b.n))
\* Math.floor
RFloor(a) == a.n \div a.d

IntMax(a, b) == IF a >= b THEN a ELSE b
IntMin(a, b) == IF a <= b THEN a ELSE b

---------------------------------------------------------------------------
(* roundToNiceNumber *)

\* Mutant of niceStep: the comparisons with 1, 2 and 5 made strict.
niceStepStrict(absValue, base) ==
    IF absValue < 1 * base THEN 1
    ELSE IF absValue < 2 * base THEN 2
    ELSE IF absValue < 5 * base THEN 5
    ELSE 10

\* The nice step for normalized = absValue / base: 1, 2, 5, else 10.
niceStep(absValue, base) ==
    IF absValue <= 1 * base THEN 1
    ELSE IF absValue <= 2 * base THEN 2
    ELSE IF absValue <= 5 * base THEN 5
    ELSE 10

\* Math.ceil or Math.floor of normalized / niceStep, times niceStep * base.
\* absValue and base are in thousandths, so normalized / niceStep is
\* absValue / (niceStep * base).
RoundToStep(absValue, base, roundUp) ==
    LET step == niceStep(absValue, base) IN
    IF roundUp
    THEN CeilDiv(absValue, step * base) * step * base
    ELSE (absValue \div (step * base)) * step * base

\* magnitude = Math.floor(Math.log10(absValue)), base = Math.pow(10, magnitude):
\* in thousandths base is 10^Log10Floor(absValue).  The branch for
\* absValue < 1 and the general branch perform the same computation.
roundToNiceNumber(value, roundUp) ==
    IF ~isFinite(value) \/ value.v = 0 THEN value
    ELSE
        LET sign == IF value.v < 0 THEN -1 ELSE 1
            absValue == IF value.v < 0 THEN -value.v ELSE value.v
            base == Pow10(Log10Floor(absValue))
        IN  IF absValue < Scale
            THEN Norm(sign * RoundToStep(absValue, base, roundUp))
            ELSE Norm(sign * RoundToStep(absValue, base, roundUp))

---------------------------------------------------------------------------
(* Measure-axis range.  Lines 66-112 of the first component are           *)
(* character-identical to lines 133-179 of the second, so both memos      *)
(* share the scan, the padding and the clamp.                             *)

\* forEach: the smallest finite element[0], starting from Infinity.
RECURSIVE ScanMin(_, _, _)
ScanMin(values, i, globalMin) ==
    IF i > Len(values) THEN globalMin
    ELSE LET boxMin == values[i][1] IN
         ScanMin(values, i + 1,
                 IF isFinite(boxMin) /\ Lt(boxMin, globalMin) THEN boxMin ELSE globalMin)

\* Mutant of ScanMax: the third quartile is read where the code reads the
\* upper whisker end.
RECURSIVE ScanMaxThirdQuartile(_, _, _)
ScanMaxThirdQuartile(values, i, globalMax) ==
    IF i > Len(values) THEN globalMax
    ELSE LET boxMax == values[i][4] IN
         ScanMaxThirdQuartile(values, i + 1,
                 IF isFinite(boxMax) /\ Gt(boxMax, globalMax) THEN boxMax ELSE globalMax)

\* forEach: the largest finite element[4], starting from -Infinity.
RECURSIVE ScanMax(_, _, _)
ScanMax(values, i, globalMax) ==
    IF i > Len(values) THEN globalMax
    ELSE LET boxMax == values[i][5] IN
         ScanMax(values, i + 1,
                 IF isFinite(boxMax) /\ Gt(boxMax, globalMax) THEN boxMax ELSE globalMax)

GlobalMin(values) == ScanMin(values, 1, PosInf)
GlobalMax(values) == ScanMax(values, 1, NegInf)

\* Mutant of Padding: 30% of the range in minPadding where the code takes 3%.
PaddingThirtyPercentFloor(globalMin, globalMax) ==
    LET range == Sub(globalMax, globalMin) IN
    IF range = Fin(0)
    THEN MathMax(MulLit(MathAbs(globalMax), 8, 100), Num(1))
    ELSE LET rangeBasedPadding == MulLit(range, 8, 100)
             minPadding == MathMax(MulLit(range, 30, 100), Num(1))
         IN  MathMax(rangeBasedPadding, minPadding)

\* Mutant of Padding: 5% of the range where the code takes 8%.
PaddingFivePercent(globalMin, globalMax) ==
    LET range == Sub(globalMax, globalMin) IN
    IF range = Fin(0)
    THEN MathMax(MulLit(MathAbs(globalMax), 8, 100), Num(1))
    ELSE MathMax(MulLit(range, 5, 100), MathMax(MulLit(range, 3, 100), Num(1)))

\* Mutant of Padding: no branch for range === 0.
PaddingNoConstantBranch(globalMin, globalMax) ==
    LET range == Sub(globalMax, globalMin) IN
    MathMax(MulLit(range, 8, 100), MathMax(MulLit(range, 3, 100), Num(1)))

\* topPadding = bottomPadding for finite globalMin, globalMax.
Padding(globalMin, globalMax) ==
    LET range == Sub(globalMax, globalMin) IN
    IF range = Fin(0)
    THEN MathMax(MulLit(MathAbs(globalMax), 8, 100), Num(1))
    ELSE LET rangeBasedPadding == MulLit(range, 8, 100)
             minPadding == MathMax(MulLit(range, 3, 100), Num(1))
         IN  MathMax(rangeBasedPadding, minPadding)

\* Mutant of CalculatedMin: the clamp at zero left out.
CalculatedMinNoClamp(globalMin, globalMax) ==
    Sub(globalMin, Padding(globalMin, globalMax))

\* calculatedMin after the clamp at zero.
CalculatedMin(globalMin, globalMax) ==
    LET calculatedMin == Sub(globalMin, Padding(globalMin, globalMax)) IN
    IF Ge(globalMin, Num(0)) /\ Lt(calculatedMin, Num(0)) THEN Num(0) ELSE calculatedMin

CalculatedMax(globalMin, globalMax) == Add(globalMax, Padding(globalMin, globalMax))

\* The memo of the first component: the padded range as it is.
ComputeYAxisConfig(values) ==
    IF Len(values) = 0 THEN [min |-> Undefined, max |-> Undefined]
    ELSE LET globalMin == GlobalMin(values)
             globalMax == GlobalMax(values)
         IN  IF isFinite(globalMin) /\ isFinite(globalMax)
             THEN [min |-> CalculatedMin(globalMin, globalMax),
                   max |-> CalculatedMax(globalMin, globalMax)]
             ELSE [min |-> Undefined, max |-> Undefined]

\* The memo of the second component: the padded range, max rounded up and
\* min rounded down.
ComputeMeasureAxisConfig(values) ==
    IF Len(values) = 0 THEN [min |-> Undefined, max |-> Undefined]
    ELSE LET globalMin == GlobalMin(values)
             globalMax == GlobalMax(values)
         IN  IF isFinite(globalMin) /\ isFinite(globalMax)
             THEN [min |-> roundToNiceNumber(CalculatedMin(globalMin, globalMax), FALSE),
                   max |-> roundToNiceNumber(CalculatedMax(globalMin, globalMax), TRUE)]
             ELSE [min |-> Undefined, max |-> Undefined]

---------------------------------------------------------------------------
(* createSmartTruncationFormatter *)

\* The character the first component appends: U+2026, one UTF-16 code unit.
EllipsisFirst == <<"U+2026">>

\* The string literal the second component appends, as its source file
\* holds it: the three code units U+00E2 U+20AC U+00A6.
EllipsisSecond == <<"U+00E2", "U+20AC", "U+00A6">>

\* Mutant of MaxCharsVertical: the bottom grid margin of unrotated labels.
MaxCharsVerticalSmallMargin(rotation, fontSize, height) ==
    LET availableChartHeight == RMul(Int2Rat(height), RSub(Int2Rat(1), Rat(8, 100)))
        maxLabelHeight == RMul(availableChartHeight, Rat(28, 100))
        pixelsPerChar == RMul(Int2Rat(fontSize), Rat(11, 10))
    IN  IntMax(10, IntMin(50, RFloor(RDiv(maxLabelHeight, pixelsPerChar))))

\* The isVertical branch: height-driven budget, clamped to [10, 50].
MaxCharsVertical(rotation, fontSize, height) ==
    LET maxLabelHeightPercent == Rat(28, 100)
        bottomGridPercent == IF rotation = 90 THEN Rat(15, 100) ELSE Rat(8, 100)
        availableChartHeight == RMul(Int2Rat(height), RSub(Int2Rat(1), bottomGridPercent))
        maxLabelHeight == RMul(availableChartHeight, maxLabelHeightPercent)
        pixelsPerChar == RMul(Int2Rat(fontSize), Rat(11, 10))
        maxCharsPerCategory == RFloor(RDiv(maxLabelHeight, pixelsPerChar))
        minChars == 10
        maxChars == 50
    IN  IntMax(minChars, IntMin(maxChars, maxCharsPerCategory))

\* Mutant of MaxCharsHorizontal: the padding subtracted on one side only.
MaxCharsHorizontalOneSide(numCategories, fontSize, padding, width) ==
    LET availableWidthPercent == RSub(Int2Rat(100), padding)
        pixelsPerChar == RMul(Int2Rat(fontSize), Rat(65, 100))
        effectiveWidth == RMul(Int2Rat(width), RDiv(availableWidthPercent, Int2Rat(100)))
        pixelsPerCategory == RDiv(effectiveWidth, Int2Rat(numCategories))
    IN  IntMax(6, IntMin(100,
            RFloor(RDiv(RMul(pixelsPerCategory, Rat(110, 100)), pixelsPerChar))))

\* The else branch: width- and density-driven budget, clamped to [6, 100].
MaxCharsHorizontal(numCategories, fontSize, padding, width) ==
    LET availableWidthPercent == RSub(Int2Rat(100), RMul(padding, Int2Rat(2)))
        pixelsPerChar == RMul(Int2Rat(fontSize), Rat(65, 100))
        effectiveWidth == RMul(Int2Rat(width), RDiv(availableWidthPercent, Int2Rat(100)))
        pixelsPerCategory == RDiv(effectiveWidth, Int2Rat(numCategories))
        maxCharsPerCategory ==
            RFloor(RDiv(RMul(pixelsPerCategory, Rat(110, 100)), pixelsPerChar))
        minChars == 6
        maxChars == 100
    IN  IntMax(minChars, IntMin(maxChars, maxCharsPerCategory))

\* Mutant of createSmartTruncationFormatter: no early return for an empty
\* category list, which is laid out as a single category.
createSmartTruncationFormatterNoEmptyCase(numCategories, rotation, fontSize, padding, width, height) ==
    LET isVertical == rotation = 90 IN
    [identity |-> FALSE,
     maxCharsPerCategory |->
         IF isVertical
         THEN MaxCharsVertical(rotation, fontSize, height)
         ELSE MaxCharsHorizontal(IntMax(1, numCategories), fontSize, padding, width)]

\* The useMemo callback: the formatter it returns, as the budget it captures.
createSmartTruncationFormatter(numCategories, rotation, fontSize, padding, width, height) ==
    IF numCategories = 0
    THEN [identity |-> TRUE, maxCharsPerCategory |-> 0]
    ELSE LET isVertical == rotation = 90 IN
         [identity |-> FALSE,
          maxCharsPerCategory |->
              IF isVertical
              THEN MaxCharsVertical(rotation, fontSize, height)
              ELSE MaxCharsHorizontal(numCategories, fontSize, padding, width)]

\* A label argument: undefined, or a string as its sequence of code units.
UndefinedLabel == [defined |-> FALSE, chars |-> <<>>]
Str(chars) == [defined |-> TRUE, chars |-> chars]

\* Mutant of ApplyFormatter: the kept characters start at index 1.
ApplyFormatterFromOne(f, arg, ellipsis) ==
    IF ~arg.defined \/ Len(arg.chars) = 0 THEN Str(<<>>)
    ELSE IF f.identity THEN arg
    ELSE IF Len(arg.chars) > f.maxCharsPerCategory
         THEN Str(SubSeq(arg.chars, 2, f.maxCharsPerCategory) \o ellipsis)
         ELSE arg

\* A call of the formatter f on the label arg; ellipsis is the literal the
\* component appends.  !value holds for undefined and for the empty string.
ApplyFormatter(f, arg, ellipsis) ==
    IF ~arg.defined \/ Len(arg.chars) = 0 THEN Str(<<>>)
    ELSE IF f.identity THEN arg
    ELSE IF Len(arg.chars) > f.maxCharsPerCategory
         THEN Str(SubSeq(arg.chars, 1, f.maxCharsPerCategory - 1) \o ellipsis)
         ELSE arg

---------------------------------------------------------------------------
(* Memoization *)

\* Mutant of FormatterDeps: the container height is not a dependency.
FormatterDepsNoHeight(numCategories, rotation, fontSize, padding, width, height) ==
    <<numCategories, rotation, fontSize, padding, width>>

\* The dependency array of the formatter memo.
FormatterDeps(numCategories, rotation, fontSize, padding, width, height) ==
    <<numCategories, rotation, fontSize, padding, width, height>>

\* The dependency array of the axis memos.
AxisDeps(values) == <<values>>

\* useMemo: the cached value is kept while the dependencies are what they
\* were when it was computed.
UseMemo(cachedDeps, cachedValue, deps, computed) ==
    IF deps = cachedDeps THEN cachedValue ELSE computed

\* No timeout: what the redraw effect leaves to clear when it scheduled none,
\* and what has fired when nothing has.
NoTimer == [instance |-> 0, kind |-> "none", run |-> 0]

\* Mutant of ClearTimeout: the timeout stays pending.
ClearTimeoutNothing(pending, timer) == pending

\* clearTimeout(timer) on the pending timeouts.
ClearTimeout(pending, timer) == pending \ {timer}

\* The dependency array of the boxplotData memo, as the identities of the
\* objects in it; columnInfo is delivered together with the data.
AppDeps(dataId, cfgId) == <<dataId, dataId, cfgId>>

---------------------------------------------------------------------------
(* The tooltip formatter *)

\* The empty string a tooltip formatter returns when it has nothing to show.
EmptyTooltip == [kind |-> "text", name |-> Str(<<>>)]

\* x || '' for a label x.
OrEmpty(x) == IF x.defined /\ Len(x.chars) > 0 THEN x ELSE Str(<<>>)

\* cats[k] for a zero-based index k: undefined outside the array.
ElementAt(cats, k) == IF k + 1 \in 1 .. Len(cats) THEN cats[k + 1] ELSE UndefinedLabel

\* Mutant of tooltipFormatter: the name the event carries wins over the
\* category looked up by position.
tooltipFormatterEventName(params, cats, values, attributeAxisType) ==
    LET categoryIndex == IF params.dataIndex.defined THEN params.dataIndex.index ELSE 0
        axisEvent == params.componentType = attributeAxisType
                         /\ params.componentSubType = "category"
        seriesEvent == params.componentType = "series" /\ params.seriesType = "boxplot"
        dataValueFound ==
            \/ params.hasValue
            \/ params.dataIndex.defined /\ params.dataIndex.index + 1 \in 1 .. Len(values)
        byName == OrEmpty(params.name)
        attributeName ==
            IF Len(byName.chars) > 0 THEN byName ELSE OrEmpty(ElementAt(cats, categoryIndex))
    IN  IF axisEvent THEN [kind |-> "text", name |-> attributeName]
        ELSE IF ~seriesEvent \/ ~dataValueFound THEN EmptyTooltip
        ELSE [kind |-> "box", name |-> attributeName]

\* tooltip.formatter(params).  An event that arrives as an array is handled
\* through its first element, which params stands for; isArray records the
\* form.  The result is the plain text of name (kind "text"), or the box of
\* five formatted values under the heading name (kind "box"); the value lines
\* are produced by the caller's formatValue and are not part of the model.
tooltipFormatter(params, cats, values, attributeAxisType) ==
    LET categoryIndex == IF params.dataIndex.defined THEN params.dataIndex.index ELSE 0
        axisEvent == params.componentType = attributeAxisType
                         /\ params.componentSubType = "category"
        seriesEvent == params.componentType = "series" /\ params.seriesType = "boxplot"
        dataValueFound ==
            \/ params.hasValue
            \/ params.dataIndex.defined /\ params.dataIndex.index + 1 \in 1 .. Len(values)
        byPosition == OrEmpty(ElementAt(cats, categoryIndex))
        attributeName ==
            IF Len(byPosition.chars) > 0 THEN byPosition ELSE OrEmpty(params.name)
    IN  IF axisEvent THEN [kind |-> "text", name |-> byPosition]
        ELSE IF ~seriesEvent \/ ~dataValueFound THEN EmptyTooltip
        ELSE [kind |-> "box", name |-> attributeName]

\* isHorizontal ? 'yAxis' : 'xAxis'
AttributeAxisType(orient) == IF orient = "horizontal" THEN "yAxis" ELSE "xAxis"

---------------------------------------------------------------------------
(* The data transform of App *)

\* A cell of a column array: a number, a string (its code units), a boolean
\* (num is 1 for true and 0 for false), null, or undefined (also what an
\* index past the end of the array reads).
NumberCell(x) == [t |-> "number", num |-> x, chars |-> <<>>]
StringCell(chars) == [t |-> "string", num |-> Fin(0), chars |-> chars]
BooleanCell(b) == [t |-> "boolean", num |-> IF b THEN Num(1) ELSE Num(0), chars |-> <<>>]
NullCell == [t |-> "null", num |-> Fin(0), chars |-> <<>>]
UndefinedCell == [t |-> "undefined", num |-> Fin(0), chars |-> <<>>]

DigitChars == <<"0", "1", "2", "3", "4", "5", "6", "7", "8", "9">>
IsDigits(chars) == \A i \in 1 .. Len(chars) : \E d \in 1 .. Len(DigitChars) : DigitChars[d] = chars[i]
DigitValue(c) == (CHOOSE d \in 1 .. Len(DigitChars) : DigitChars[d] = c) - 1

\* The value of a sequence of decimal digits.
RECURSIVE DigitsValue(_)
DigitsValue(chars) ==
    IF chars = <<>> THEN 0
    ELSE DigitsValue(SubSeq(chars, 1, Len(chars) - 1)) * Len(DigitChars)
             + DigitValue(chars[Len(chars)])

\* The value, in units of 1/Scale, of the digits after a decimal point; unit
\* is the weight of the first digit.  Digits finer than the grid are dropped.
RECURSIVE FractionValue(_, _)
FractionValue(chars, unit) ==
    IF chars = <<>> \/ unit = 0 THEN 0
    ELSE DigitValue(chars[1]) * unit + FractionValue(Tail(chars), unit \div Len(DigitChars))

\* Number(s) for a string s made of an optional minus sign, decimal digits
\* and at most one decimal point, or the word Infinity; any other text that
\* is offered is not numeric.  Number('') is 0.
StringToNumber(chars) ==
    IF chars = <<>> THEN Fin(0)
    ELSE IF chars = <<"I", "n", "f", "i", "n", "i", "t", "y">> THEN PosInf
    ELSE LET negative == chars[1] = "-"
             body == IF negative THEN Tail(chars) ELSE chars
             dots == {i \in 1 .. Len(body) : body[i] = "."}
             dot == IF dots = {} THEN Len(body) + 1 ELSE CHOOSE i \in dots : TRUE
             whole == SubSeq(body, 1, dot - 1)
             fraction == SubSeq(body, dot + 1, Len(body))
         IN  IF \/ Cardinality(dots) > 1
                \/ ~IsDigits(whole) \/ ~IsDigits(fraction)
                \/ (whole = <<>> /\ fraction = <<>>)
             THEN NaN
             ELSE LET magnitude == DigitsValue(whole) * Scale
                                       + FractionValue(fraction, Scale \div Len(DigitChars))
                  IN  Norm(IF negative THEN -magnitude ELSE magnitude)

\* Number(cell)
ToNumber(cell) ==
    IF cell.t = "number" THEN cell.num
    ELSE IF cell.t = "boolean" THEN cell.num
    ELSE IF cell.t = "null" THEN Fin(0)
    ELSE IF cell.t = "undefined" THEN NaN
    ELSE StringToNumber(cell.chars)

\* The decimal digits of a natural number.
RECURSIVE NatToChars(_)
NatToChars(n) ==
    IF n < Len(DigitChars) THEN <<DigitChars[n + 1]>>
    ELSE NatToChars(n \div Len(DigitChars)) \o <<DigitChars[(n % Len(DigitChars)) + 1]>>

\* The digits after the decimal point of f / Scale, without trailing zeros.
RECURSIVE FractionToChars(_, _)
FractionToChars(f, unit) ==
    IF f = 0 \/ unit = 0 THEN <<>>
    ELSE <<DigitChars[(f \div unit) + 1]>> \o FractionToChars(f % unit, unit \div Len(DigitChars))

\* String(x) for a number x.
NumberToString(x) ==
    IF x.t = "nan" THEN <<"N", "a", "N">>
    ELSE IF x.t = "inf"
         THEN (IF x.v < 0 THEN <<"-">> ELSE <<>>) \o <<"I", "n", "f", "i", "n", "i", "t", "y">>
    ELSE LET magnitude == IF x.v < 0 THEN -x.v ELSE x.v
             fraction == FractionToChars(magnitude % Scale, Scale \div Len(DigitChars))
         IN  (IF x.v < 0 THEN <<"-">> ELSE <<>>)
                 \o NatToChars(magnitude \div Scale)
                 \o (IF fraction = <<>> THEN <<>> ELSE <<".">> \o fraction)

\* String(cell)
CellToString(cell) ==
    IF cell.t = "string" THEN cell.chars
    ELSE IF cell.t = "number" THEN NumberToString(cell.num)
    ELSE IF cell.t = "boolean"
         THEN (IF cell.num = Num(1) THEN <<"t", "r", "u", "e">> ELSE <<"f", "a", "l", "s", "e">>)
    ELSE IF cell.t = "null" THEN <<"n", "u", "l", "l">>
    ELSE <<"u", "n", "d", "e", "f", "i", "n", "e", "d">>

\* A column of sigmaData: absent, or an array of cells.
Absent == [present |-> FALSE, cells |-> <<>>]
Column(cells) == [present |-> TRUE, cells |-> cells]

\* values[i] for the one-based row i: undefined past the end of the array.
CellAt(column, i) == IF i \in 1 .. Len(column.cells) THEN column.cells[i] ELSE UndefinedCell

\* The column sigmaData[id]; no column has the empty id.
Lookup(data, id) == IF id \in DOMAIN data THEN data[id] ELSE Absent

\* Row i of the mapped columns, in the order the loop reads it:
\* attribute, min, q1, median, q2, max.
SourceRow(data, cfg, i) ==
    [attribute |-> CellAt(Lookup(data, cfg.attribute), i),
     min |-> CellAt(Lookup(data, cfg.minValue), i),
     q1 |-> CellAt(Lookup(data, cfg.quartile1), i),
     median |-> CellAt(Lookup(data, cfg.median), i),
     q2 |-> CellAt(Lookup(data, cfg.quartile2), i),
     max |-> CellAt(Lookup(data, cfg.maxValue), i)]

\* Mutant of RowSkipped: only the whisker ends are looked at.
RowSkippedWhiskersOnly(row) ==
    \/ isNaN(ToNumber(row.min))
    \/ isNaN(ToNumber(row.max))
    \/ row.attribute.t \in {"null", "undefined"}

\* The condition of the loop's continue.
RowSkipped(row) ==
    \/ isNaN(ToNumber(row.min))
    \/ isNaN(ToNumber(row.q1))
    \/ isNaN(ToNumber(row.median))
    \/ isNaN(ToNumber(row.q2))
    \/ isNaN(ToNumber(row.max))
    \/ row.attribute.t \in {"null", "undefined"}

\* Mutant of DataPoint: the name is the attribute cell's text only when the
\* cell is a string, and the two quartiles are stored in the other order.
DataPointRawName(row) ==
    [name |-> Str(row.attribute.chars),
     value |-> <<ToNumber(row.min), ToNumber(row.q2), ToNumber(row.median),
                 ToNumber(row.q1), ToNumber(row.max)>>]

\* The data point pushed for a row that is not skipped.
DataPoint(row) ==
    [name |-> Str(CellToString(row.attribute)),
     value |-> <<ToNumber(row.min), ToNumber(row.q1), ToNumber(row.median),
                 ToNumber(row.q2), ToNumber(row.max)>>]

\* The for loop over rows i .. numRows, as the list of pushed data points.
RECURSIVE TransformRows(_, _, _, _)
TransformRows(data, cfg, i, numRows) ==
    IF i > numRows THEN <<>>
    ELSE LET row == SourceRow(data, cfg, i)
             rest == TransformRows(data, cfg, i + 1, numRows)
         IN  IF RowSkipped(row) THEN rest ELSE <<DataPoint(row)>> \o rest

\* One of the source and the six column mappings is not set.
MappingUnset(cfg) ==
    \/ cfg.source = ""
    \/ cfg.attribute = ""
    \/ cfg.minValue = ""
    \/ cfg.maxValue = ""
    \/ cfg.median = ""
    \/ cfg.quartile1 = ""
    \/ cfg.quartile2 = ""

\* One of the six mapped columns is not in the data.
ColumnMissing(data, cfg) ==
    \/ ~Lookup(data, cfg.attribute).present
    \/ ~Lookup(data, cfg.minValue).present
    \/ ~Lookup(data, cfg.maxValue).present
    \/ ~Lookup(data, cfg.median).present
    \/ ~Lookup(data, cfg.quartile1).present
    \/ ~Lookup(data, cfg.quartile2).present

\* What a run of the memo callback gives: the list it returns, or threw when
\* it ends in a TypeError.
Returned(points) == [threw |-> FALSE, points |-> points]
Threw == [threw |-> TRUE, points |-> <<>>]

\* Mutant of Transform: the mapped columns are read without the check that
\* they exist.
TransformNoColumnCheck(data, cfg) ==
    IF MappingUnset(cfg) THEN Returned(<<>>)
    ELSE IF ColumnMissing(data, cfg) THEN Threw
    ELSE Returned(TransformRows(data, cfg, 1, Len(Lookup(data, cfg.attribute).cells)))

\* The boxplotData memo callback.
Transform(data, cfg) ==
    IF MappingUnset(cfg) THEN Returned(<<>>)
    ELSE IF ColumnMissing(data, cfg) THEN Returned(<<>>)
    ELSE Returned(TransformRows(data, cfg, 1, Len(Lookup(data, cfg.attribute).cells)))

SelectSourcePrompt == "Please select a data source"
ConfigureMappingPrompt == "Please configure all required column mappings"
NoDataMessage == "No data available"

\* Mutant of AppView: the mappings are looked at before the source.
AppViewMappingsFirst(points, cfg) ==
    IF Len(points) = 0
    THEN IF \/ cfg.attribute = "" \/ cfg.minValue = "" \/ cfg.maxValue = ""
            \/ cfg.median = "" \/ cfg.quartile1 = "" \/ cfg.quartile2 = ""
         THEN ConfigureMappingPrompt
         ELSE IF cfg.source = "" THEN SelectSourcePrompt
         ELSE NoDataMessage
    ELSE "chart"

\* What App returns for the data points of the memo: an empty-state message,
\* or the chart.
AppView(points, cfg) ==
    IF Len(points) = 0
    THEN IF cfg.source = "" THEN SelectSourcePrompt
         ELSE IF \/ cfg.attribute = "" \/ cfg.minValue = "" \/ cfg.maxValue = ""
                 \/ cfg.median = "" \/ cfg.quartile1 = "" \/ cfg.quartile2 = ""
              THEN ConfigureMappingPrompt
              ELSE NoDataMessage
    ELSE "chart"

---------------------------------------------------------------------------
(* Inputs *)

\* Largest magnitude (in thousandths) of the dense range of arguments
\* offered to roundToNiceNumber.
MaxNiceInput == 12000

\* Whisker ends offered to the axis computation (element[0] and element[4]).
MinValues == {Fin(-MaxFinite), Num(-5), Num(0), Num(5), Num(40), NaN, NegInf}
MaxValues == {Num(-5), Num(-4), Num(0), Num(5), Num(40), Num(100), Fin(MaxFinite), NaN, PosInf}

ExampleQuintuples ==
    {<<Num(0), Num(10), Num(20), Num(30), Num(40)>>,
     <<Num(5), Num(15), Num(25), Num(35), Num(100)>>,
     <<Num(5), Num(5), Num(5), Num(5), Num(5)>>}

\* A quintuple with the box collapsed onto the lower whisker end, for every
\* pair of whisker ends, and the quintuples of the documented examples.
Quintuples ==
    {<<a, a, a, a, b>> : a \in MinValues, b \in MaxValues} \cup ExampleQuintuples

RECURSIVE SeqsUpTo(_, _)
SeqsUpTo(S, n) ==
    IF n = 0 THEN {<<>>}
    ELSE LET shorter == SeqsUpTo(S, n - 1) IN
         shorter \cup {Append(s, x) : s \in {t \in shorter : Len(t) = n - 1}, x \in S}

DataSets == SeqsUpTo(Quintuples, MaxRows)

\* Arguments offered to roundToNiceNumber, in thousandths.
NiceInputs ==
    {Fin(n) : n \in -MaxNiceInput .. MaxNiceInput}
        \cup {Num(108), Num(-108), Num(5000), Fin(MaxFinite), Fin(-MaxFinite),
              NaN, PosInf, NegInf}

\* Labels offered to the formatter: the prefixes of a fixed text, and the
\* same prefixes with their last character replaced by U+2026.
Letters == <<"a", "b", "c", "d", "e", "f", "g", "h", "i", "j", "k", "l", "m", "n">>
Prefix(n) == [i \in 1 .. n |-> Letters[((i - 1) % Len(Letters)) + 1]]
LabelArgs ==
    {UndefinedLabel}
        \cup {Str(Prefix(n)) : n \in 0 .. MaxLabelLen}
        \cup {Str(Prefix(n - 1) \o EllipsisFirst) : n \in 1 .. MaxLabelLen}

RotationValues == {0, 90}
FontSizeValues == {8, 12, 24}
PaddingValues == {Rat(-5, 1), Rat(0, 1), Rat(10, 1), Rat(25, 2), Rat(50, 1), Rat(60, 1)}
WidthValues == {0, 300, 1000, 1600}
HeightValues == {0, 400, 600, 1000, 3000}

Unset == [min |-> Undefined, max |-> Undefined]

\* Category names offered to the chart: the empty string, a short name and a
\* name of the greatest length.
CategoryNames == {Str(<<>>), Str(Prefix(3)), Str(Prefix(MaxLabelLen))}
CategoryLists == SeqsUpTo(CategoryNames, MaxCategories)
OrientationValues == {"vertical", "horizontal"}

\* The quintuple every row of the tooltip specification carries.
TooltipRow == <<Num(0), Num(10), Num(20), Num(30), Num(40)>>

NoIndex == [defined |-> FALSE, index |-> 0]
DataIndex(k) == [defined |-> TRUE, index |-> k]

\* The events offered to the tooltip formatter, but for the name they carry.
TooltipEvents(numCategories) ==
    [isArray : BOOLEAN,
     componentType : {"xAxis", "yAxis", "series"},
     componentSubType : {"category", "value"},
     seriesType : {"boxplot", "line"},
     dataIndex : {NoIndex} \cup {DataIndex(k) : k \in 0 .. numCategories - 1},
     hasValue : BOOLEAN]

NoParams ==
    [isArray |-> FALSE, componentType |-> "series", componentSubType |-> "value",
     seriesType |-> "line", dataIndex |-> NoIndex, hasValue |-> FALSE, name |-> UndefinedLabel]

\* The ids of the columns of the source element, named after the mapping
\* that selects them.
ColumnIds == {"attribute", "min", "q1", "median", "q2", "max"}

\* The configuration with the source and all six mappings set.
FullConfig ==
    [source |-> "source-1", attribute |-> "attribute", minValue |-> "min", maxValue |-> "max",
     median |-> "median", quartile1 |-> "q1", quartile2 |-> "q2"]

\* Every configuration in which the source and each mapping is set or not.
Configs ==
    [source : {"", FullConfig.source}, attribute : {"", FullConfig.attribute},
     minValue : {"", FullConfig.minValue}, maxValue : {"", FullConfig.maxValue},
     median : {"", FullConfig.median}, quartile1 : {"", FullConfig.quartile1},
     quartile2 : {"", FullConfig.quartile2}]

EmptyConfig ==
    [source |-> "", attribute |-> "", minValue |-> "", maxValue |-> "",
     median |-> "", quartile1 |-> "", quartile2 |-> ""]

\* Row i of a well-formed source: a name and five increasing numbers, both
\* different from row to row.
BaseRow(i) ==
    [attribute |-> StringCell(Prefix(i)),
     min |-> NumberCell(Num(i)), q1 |-> NumberCell(Num(i + 1)),
     median |-> NumberCell(Num(i + 2)), q2 |-> NumberCell(Num(i + 3)),
     max |-> NumberCell(Num(i + 4))]

\* Cells offered in place of a number, and in place of a name.
OddNumericCells ==
    {NullCell, UndefinedCell, NumberCell(NaN), NumberCell(PosInf),
     StringCell(<<"a", "b">>), StringCell(<<"7">>), StringCell(<<"-", "2", ".", "5">>),
     StringCell(<<>>), BooleanCell(TRUE)}
OddAttributeCells ==
    {NullCell, UndefinedCell, NumberCell(Num(7)), NumberCell(Fin(-((5 * Scale) \div 2))),
     StringCell(<<>>), BooleanCell(FALSE)}

\* A row is the well-formed row, or that row with one cell replaced: the
\* median by any of the odd cells, another number by null, NaN or a numeric
\* string, the name by any of the odd names.
RowPatterns ==
    {[field |-> "none", cell |-> NullCell]}
        \cup {[field |-> "median", cell |-> c] : c \in OddNumericCells}
        \cup {[field |-> f, cell |-> c] :
                  f \in {"min", "q1", "q2", "max"},
                  c \in {NullCell, NumberCell(NaN), StringCell(<<"7">>)}}
        \cup {[field |-> "attribute", cell |-> c] : c \in OddAttributeCells}

RowOf(pattern, i) ==
    IF pattern.field = "none" THEN BaseRow(i)
    ELSE [BaseRow(i) EXCEPT ![pattern.field] = pattern.cell]

\* The column arrays that hold the given rows.
SigmaDataOf(rows) ==
    [id \in ColumnIds |-> Column([i \in 1 .. Len(rows) |-> rows[i][id]])]

SourceDataSets ==
    {SigmaDataOf([i \in 1 .. Len(patterns) |-> RowOf(patterns[i], i)]) :
        patterns \in SeqsUpTo(RowPatterns, MaxRows)}

\* A well-formed source of which only some columns have arrived.
PartialDataSets ==
    {[id \in ColumnIds |->
         IF id \in arrived THEN SigmaDataOf(<<BaseRow(1), BaseRow(2)>>)[id] ELSE Absent] :
        arrived \in SUBSET ColumnIds}

\* The data sets the mounted chart is given.
ChartQuintuples ==
    {<<Num(0), Num(10), Num(20), Num(30), Num(40)>>,
     <<Num(5), Num(15), Num(25), Num(35), Num(100)>>}
ChartDataSets == SeqsUpTo(ChartQuintuples, MaxRows)

\* The style settings and container sizes the mounted chart goes through.
ChartFontSizes == {12, 24}
ChartPaddings == {Rat(10, 1), Rat(50, 1)}
ChartWidths == {300, 1000}
ChartHeights == {400, 600, 1000}

\* The names of the rows of a data set of the mounted chart.
ChartCategories(values) == [i \in 1 .. Len(values) |-> Str(Prefix(i))]

\* Whisker ends of the rows whose quartiles are changed: all negative,
\* from zero up, and a single value.
WhiskerPairs == {<<Num(-40), Num(-5)>>, <<Num(0), Num(40)>>, <<Num(5), Num(5)>>}

\* The value halfway between two whisker ends, on the fixed-point grid.
Midpoint(lo, hi) == Fin((lo.v + hi.v) \div 2)

\* A row as it is first given: the box collapsed onto the lower whisker end.
CollapsedRow(pair) == <<pair[1], pair[1], pair[1], pair[1], pair[2]>>

\* The q1, median and q3 a row is changed to: ordered ones inside the
\* whiskers, and one that is neither ordered nor inside nor all numbers.
QuartileTriples(lo, hi) ==
    {<<lo, Midpoint(lo, hi), hi>>,
     <<Midpoint(lo, hi), Midpoint(lo, hi), Midpoint(lo, hi)>>,
     <<hi, hi, hi>>,
     <<NaN, Add(hi, Num(1000)), Sub(lo, Num(1))>>}

QuartileDataSets == SeqsUpTo({CollapsedRow(pair) : pair \in WhiskerPairs}, MaxRows)

\* Largest number of chart components mounted one after the other, and
\* largest number of runs of the redraw effect.
MaxInstances == 2
MaxEffectRuns == 3

\* The data sets the chart is mounted on and changed to.
DomDataSets == {<<TooltipRow>>, <<TooltipRow, TooltipRow>>}

\* Largest number of notifications of one kind the host sends.
MaxNotifications == 3

\* The sources the host delivers to the mounted plugin: well-formed rows,
\* and two rows of which the second has a numeric string for its median.
HostDataSets ==
    {SigmaDataOf([i \in 1 .. n |-> BaseRow(i)]) : n \in 1 .. MaxRows}
        \cup {SigmaDataOf(<<BaseRow(1), RowOf([field |-> "median", cell |-> StringCell(<<"7">>)], 2)>>)}

\* data.map(item => item.name) and data.map(item => item.value)
PointNames(points) == [i \in 1 .. Len(points) |-> points[i].name]
PointValues(points) == [i \in 1 .. Len(points) |-> points[i].value]

---------------------------------------------------------------------------
(* Specifications *)

HostIdle ==
    /\ configId = 0
    /\ sigmaDataId = 0
    /\ appDeps = AppDeps(0, 0)
    /\ transformRuns = 0

DomIdle ==
    /\ instance = 0
    /\ mounted = FALSE
    /\ chartReady = FALSE
    /\ listeners = {}
    /\ timers = {}
    /\ effectTimer = NoTimer
    /\ effectRuns = 0
    /\ lastFired = [timer |-> NoTimer, at |-> 0, live |-> FALSE]

ExtraIdle == HostIdle /\ DomIdle

MemoIdle ==
    /\ formatterDeps = FormatterDeps(0, 0, 12, Rat(10, 1), 1000, 600)
    /\ axisDeps = AxisDeps(<<>>)

AxisIdle ==
    /\ boxplotValues = <<>>
    /\ axisPhase = "memo"
    /\ yAxisConfig = Unset
    /\ measureAxisConfig = Unset

NiceIdle ==
    /\ niceValue = Fin(0)
    /\ niceRoundUp = TRUE
    /\ nicePhase = "returned"
    /\ niceResult = Fin(0)

FormatterIdle ==
    /\ categoriesLength = 0
    /\ attributeLabelRotation = 0
    /\ attributeAxisFontSize = 12
    /\ chartPadding = Rat(10, 1)
    /\ containerWidth = 1000
    /\ containerHeight = 600
    /\ formatterPhase = "called"
    /\ formatter = [identity |-> TRUE, maxCharsPerCategory |-> 0]
    /\ label = UndefinedLabel
    /\ formattedFirst = Str(<<>>)
    /\ formattedSecond = Str(<<>>)
    /\ reformattedFirst = Str(<<>>)
    /\ reformattedSecond = Str(<<>>)

AppIdle ==
    /\ config = EmptyConfig
    /\ sigmaData = [id \in ColumnIds |-> Absent]
    /\ appPhase = "rendered"
    /\ boxplotData = Returned(<<>>)
    /\ appView = SelectSourcePrompt

TooltipIdle ==
    /\ categories = <<>>
    /\ orientation = "vertical"
    /\ tooltipPhase = "idle"
    /\ tooltipParams = NoParams
    /\ tooltipFirst = EmptyTooltip
    /\ tooltipSecond = EmptyTooltip

\* The component receives a data set; the axis memos have not run yet.
InitAxis ==
    /\ boxplotValues \in DataSets
    /\ axisPhase = "props"
    /\ yAxisConfig = Unset
    /\ measureAxisConfig = Unset
    /\ NiceIdle
    /\ FormatterIdle
    /\ TooltipIdle
    /\ AppIdle
    /\ MemoIdle
    /\ ExtraIdle

\* The useMemo callbacks of both components run on boxplotValues.
AxisMemo ==
    /\ axisPhase = "props"
    /\ axisPhase' = "memo"
    /\ yAxisConfig' = ComputeYAxisConfig(boxplotValues)
    /\ measureAxisConfig' = ComputeMeasureAxisConfig(boxplotValues)
    /\ UNCHANGED <<boxplotValues, niceVars, formatterVars, laterVars>>

NextAxis == AxisMemo
SpecAxis == InitAxis /\ [][NextAxis]_vars

InitNice ==
    /\ niceValue \in NiceInputs
    /\ niceRoundUp \in BOOLEAN
    /\ nicePhase = "args"
    /\ niceResult = Fin(0)
    /\ AxisIdle
    /\ FormatterIdle
    /\ TooltipIdle
    /\ AppIdle
    /\ MemoIdle
    /\ ExtraIdle

\* A call of roundToNiceNumber(value, roundUp).
NiceCall ==
    /\ nicePhase = "args"
    /\ nicePhase' = "returned"
    /\ niceResult' = roundToNiceNumber(niceValue, niceRoundUp)
    /\ UNCHANGED <<niceValue, niceRoundUp, axisVars, formatterVars, laterVars>>

NextNice == NiceCall
SpecNice == InitNice /\ [][NextNice]_vars

\* The component receives its props and container size; the formatter memo
\* has not run yet.
InitFormatter ==
    /\ categoriesLength \in 0 .. MaxCategories
    /\ attributeLabelRotation \in RotationValues
    /\ attributeAxisFontSize \in FontSizeValues
    /\ chartPadding \in PaddingValues
    /\ containerWidth \in WidthValues
    /\ containerHeight \in HeightValues
    /\ formatterPhase = "props"
    /\ formatter = [identity |-> TRUE, maxCharsPerCategory |-> 0]
    /\ label = UndefinedLabel
    /\ formattedFirst = Str(<<>>)
    /\ formattedSecond = Str(<<>>)
    /\ reformattedFirst = Str(<<>>)
    /\ reformattedSecond = Str(<<>>)
    /\ AxisIdle
    /\ NiceIdle
    /\ TooltipIdle
    /\ AppIdle
    /\ MemoIdle
    /\ ExtraIdle

\* The useMemo callback builds the formatter.
FormatterMemo ==
    /\ formatterPhase = "props"
    /\ formatterPhase' = "memo"
    /\ formatter' = createSmartTruncationFormatter(categoriesLength, attributeLabelRotation,
                         attributeAxisFontSize, chartPadding, containerWidth, containerHeight)
    /\ UNCHANGED <<propVars, label, formattedFirst, formattedSecond,
                   reformattedFirst, reformattedSecond, axisVars, niceVars, laterVars>>

\* The chart calls the formatter on an axis label.
FormatterCall(arg) ==
    /\ formatterPhase = "memo"
    /\ formatterPhase' = "called"
    /\ label' = arg
    /\ formattedFirst' = ApplyFormatter(formatter, arg, EllipsisFirst)
    /\ formattedSecond' = ApplyFormatter(formatter, arg, EllipsisSecond)
    /\ UNCHANGED <<propVars, formatter, reformattedFirst, reformattedSecond,
                   axisVars, niceVars, laterVars>>

\* The formatter is called again, on the text it returned.
FormatterRecall ==
    /\ formatterPhase = "called"
    /\ formatterPhase' = "recalled"
    /\ reformattedFirst' = ApplyFormatter(formatter, formattedFirst, EllipsisFirst)
    /\ reformattedSecond' = ApplyFormatter(formatter, formattedSecond, EllipsisSecond)
    /\ UNCHANGED <<propVars, formatter, label, formattedFirst, formattedSecond,
                   axisVars, niceVars, laterVars>>

NextFormatter ==
    \/ FormatterMemo
    \/ \E arg \in LabelArgs : FormatterCall(arg)
    \/ FormatterRecall
SpecFormatter == InitFormatter /\ [][NextFormatter]_vars

\* The chart is rendered on a data set: the memos have run and no tooltip
\* has been asked for.
InitTooltip ==
    /\ categories \in CategoryLists
    /\ boxplotValues = [i \in 1 .. Len(categories) |-> TooltipRow]
    /\ axisPhase = "memo"
    /\ yAxisConfig = ComputeYAxisConfig(boxplotValues)
    /\ measureAxisConfig = ComputeMeasureAxisConfig(boxplotValues)
    /\ categoriesLength = Len(categories)
    /\ attributeLabelRotation \in RotationValues
    /\ attributeAxisFontSize = 12
    /\ chartPadding = Rat(10, 1)
    /\ containerWidth \in {300, 1000}
    /\ containerHeight = 600
    /\ formatterPhase = "memo"
    /\ formatter = createSmartTruncationFormatter(categoriesLength, attributeLabelRotation,
                        attributeAxisFontSize, chartPadding, containerWidth, containerHeight)
    /\ label = UndefinedLabel
    /\ formattedFirst = Str(<<>>)
    /\ formattedSecond = Str(<<>>)
    /\ reformattedFirst = Str(<<>>)
    /\ reformattedSecond = Str(<<>>)
    /\ orientation \in OrientationValues
    /\ tooltipPhase = "idle"
    /\ tooltipParams = NoParams
    /\ tooltipFirst = EmptyTooltip
    /\ tooltipSecond = EmptyTooltip
    /\ NiceIdle
    /\ AppIdle
    /\ MemoIdle
    /\ ExtraIdle

\* The names an event may carry for the category at its dataIndex: none, the
\* category as given to the axis, or the text either component draws for it.
EventNames(dataIndex) ==
    LET category == ElementAt(categories, IF dataIndex.defined THEN dataIndex.index ELSE 0) IN
    {UndefinedLabel, OrEmpty(category),
     ApplyFormatter(formatter, category, EllipsisFirst),
     ApplyFormatter(formatter, category, EllipsisSecond)}

\* The chart calls tooltip.formatter(params) of both components.
Tooltip(params) ==
    /\ tooltipPhase = "idle"
    /\ tooltipPhase' = "shown"
    /\ tooltipParams' = params
    /\ tooltipFirst' = tooltipFormatter(params, categories, boxplotValues, "xAxis")
    /\ tooltipSecond' = tooltipFormatter(params, categories, boxplotValues,
                                         AttributeAxisType(orientation))
    /\ UNCHANGED <<categories, orientation, axisVars, niceVars, formatterVars, appVars, memoVars,
                   extraVars>>

NextTooltip ==
    /\ tooltipPhase = "idle"
    /\ \E event \in TooltipEvents(Len(categories)) :
        \E name \in EventNames(event.dataIndex) :
            Tooltip([isArray |-> event.isArray, componentType |-> event.componentType,
                     componentSubType |-> event.componentSubType,
                     seriesType |-> event.seriesType, dataIndex |-> event.dataIndex,
                     hasValue |-> event.hasValue, name |-> name])
SpecTooltip == InitTooltip /\ [][NextTooltip]_vars

\* The hooks of App have delivered a configuration and the data of the
\* source: all mappings with any rows, or any mappings with any columns.
InitApp ==
    /\ \/ config = FullConfig /\ sigmaData \in SourceDataSets
       \/ config \in Configs /\ sigmaData \in PartialDataSets
    /\ appPhase = "hooks"
    /\ boxplotData = Returned(<<>>)
    /\ appView = "none"
    /\ AxisIdle
    /\ NiceIdle
    /\ FormatterIdle
    /\ TooltipIdle
    /\ MemoIdle
    /\ ExtraIdle

\* App renders: the boxplotData memo runs, and App returns an empty-state
\* message or the chart.
AppRender ==
    /\ appPhase = "hooks"
    /\ appPhase' = "rendered"
    /\ boxplotData' = Transform(sigmaData, config)
    /\ appView' = IF boxplotData'.threw THEN "error"
                  ELSE AppView(boxplotData'.points, config)
    /\ UNCHANGED <<config, sigmaData, axisVars, niceVars, formatterVars, tooltipVars, memoVars,
                   extraVars>>

NextApp == AppRender
SpecApp == InitApp /\ [][NextApp]_vars

\* The chart has rendered for the first time, on some data and configuration:
\* the container size is the initial state and every memo has been computed.
InitChart ==
    /\ boxplotValues \in ChartDataSets
    /\ categories = ChartCategories(boxplotValues)
    /\ categoriesLength = Len(categories)
    /\ attributeLabelRotation \in RotationValues
    /\ attributeAxisFontSize \in ChartFontSizes
    /\ chartPadding \in ChartPaddings
    /\ containerWidth = 1000
    /\ containerHeight = 600
    /\ axisPhase = "memo"
    /\ axisDeps = AxisDeps(boxplotValues)
    /\ yAxisConfig = ComputeYAxisConfig(boxplotValues)
    /\ measureAxisConfig = ComputeMeasureAxisConfig(boxplotValues)
    /\ formatterPhase = "memo"
    /\ formatterDeps = FormatterDeps(categoriesLength, attributeLabelRotation,
                            attributeAxisFontSize, chartPadding, containerWidth, containerHeight)
    /\ formatter = createSmartTruncationFormatter(categoriesLength, attributeLabelRotation,
                        attributeAxisFontSize, chartPadding, containerWidth, containerHeight)
    /\ label = UndefinedLabel
    /\ formattedFirst = Str(<<>>)
    /\ formattedSecond = Str(<<>>)
    /\ reformattedFirst = Str(<<>>)
    /\ reformattedSecond = Str(<<>>)
    /\ orientation = "vertical"
    /\ tooltipPhase = "idle"
    /\ tooltipParams = NoParams
    /\ tooltipFirst = EmptyTooltip
    /\ tooltipSecond = EmptyTooltip
    /\ NiceIdle
    /\ AppIdle
    /\ ExtraIdle

\* The component renders again on the new props and state: each memo is
\* recomputed if one of its dependencies changed.
RenderMemos ==
    /\ formatterDeps' = FormatterDeps(categoriesLength', attributeLabelRotation',
                             attributeAxisFontSize', chartPadding', containerWidth',
                             containerHeight')
    /\ formatter' = UseMemo(formatterDeps, formatter, formatterDeps',
                            createSmartTruncationFormatter(categoriesLength',
                                attributeLabelRotation', attributeAxisFontSize', chartPadding',
                                containerWidth', containerHeight'))
    /\ axisDeps' = AxisDeps(boxplotValues')
    /\ yAxisConfig' = UseMemo(axisDeps, yAxisConfig, axisDeps',
                              ComputeYAxisConfig(boxplotValues'))
    /\ measureAxisConfig' = UseMemo(axisDeps, measureAxisConfig, axisDeps',
                                    ComputeMeasureAxisConfig(boxplotValues'))
    /\ UNCHANGED <<axisPhase, formatterPhase, label, formattedFirst, formattedSecond,
                   reformattedFirst, reformattedSecond, orientation, tooltipPhase,
                   tooltipParams, tooltipFirst, tooltipSecond, niceVars>>

\* A render of the chart while App does not render.
Render ==
    /\ RenderMemos
    /\ UNCHANGED <<appVars, extraVars>>

\* The window is resized: updateDimensions records the container's size.
Resize(offsetWidth, offsetHeight) ==
    /\ containerWidth' = offsetWidth
    /\ containerHeight' = offsetHeight
    /\ UNCHANGED <<boxplotValues, categories, categoriesLength, attributeLabelRotation,
                   attributeAxisFontSize, chartPadding>>
    /\ Render

\* The style configuration changes.
ConfigChange(rotation, fontSize, padding) ==
    /\ attributeLabelRotation' = rotation
    /\ attributeAxisFontSize' = fontSize
    /\ chartPadding' = padding
    /\ UNCHANGED <<boxplotValues, categories, categoriesLength, containerWidth, containerHeight>>
    /\ Render

\* The chart is given new data.
DataChange(values) ==
    /\ boxplotValues' = values
    /\ categories' = ChartCategories(values)
    /\ categoriesLength' = Len(categories')
    /\ UNCHANGED <<attributeLabelRotation, attributeAxisFontSize, chartPadding,
                   containerWidth, containerHeight>>
    /\ Render

NextChart ==
    \/ \E w \in ChartWidths, h \in ChartHeights : Resize(w, h)
    \/ \E r \in RotationValues, f \in ChartFontSizes, p \in ChartPaddings : ConfigChange(r, f, p)
    \/ \E values \in ChartDataSets : DataChange(values)
SpecChart == InitChart /\ [][NextChart]_vars

\* The plugin is mounted in the host: App has rendered once on a full
\* configuration and a source, and the chart has rendered on its output.
InitHost ==
    /\ config = FullConfig
    /\ sigmaData \in HostDataSets
    /\ configId = 0
    /\ sigmaDataId = 0
    /\ appDeps = AppDeps(sigmaDataId, configId)
    /\ transformRuns = 1
    /\ appPhase = "rendered"
    /\ boxplotData = Transform(sigmaData, config)
    /\ appView = AppView(boxplotData.points, config)
    /\ boxplotValues = PointValues(boxplotData.points)
    /\ categories = PointNames(boxplotData.points)
    /\ categoriesLength = Len(categories)
    /\ attributeLabelRotation \in RotationValues
    /\ attributeAxisFontSize = 12
    /\ chartPadding \in ChartPaddings
    /\ containerWidth = 1000
    /\ containerHeight = 600
    /\ axisPhase = "memo"
    /\ axisDeps = AxisDeps(boxplotValues)
    /\ yAxisConfig = ComputeYAxisConfig(boxplotValues)
    /\ measureAxisConfig = ComputeMeasureAxisConfig(boxplotValues)
    /\ formatterPhase = "memo"
    /\ formatterDeps = FormatterDeps(categoriesLength, attributeLabelRotation,
                            attributeAxisFontSize, chartPadding, containerWidth, containerHeight)
    /\ formatter = createSmartTruncationFormatter(categoriesLength, attributeLabelRotation,
                        attributeAxisFontSize, chartPadding, containerWidth, containerHeight)
    /\ label = UndefinedLabel
    /\ formattedFirst = Str(<<>>)
    /\ formattedSecond = Str(<<>>)
    /\ reformattedFirst = Str(<<>>)
    /\ reformattedSecond = Str(<<>>)
    /\ orientation = "vertical"
    /\ tooltipPhase = "idle"
    /\ tooltipParams = NoParams
    /\ tooltipFirst = EmptyTooltip
    /\ tooltipSecond = EmptyTooltip
    /\ NiceIdle
    /\ DomIdle

\* App renders on the objects its hooks now return: the boxplotData memo
\* runs again if the identity of one of its dependencies changed, and the
\* chart renders on the data points App passes down.
AppRerender ==
    /\ appDeps' = AppDeps(sigmaDataId', configId')
    /\ boxplotData' = UseMemo(appDeps, boxplotData, appDeps', Transform(sigmaData', config'))
    /\ transformRuns' = UseMemo(appDeps, transformRuns, appDeps', transformRuns + 1)
    /\ appView' = AppView(boxplotData'.points, config')
    /\ boxplotValues' = PointValues(boxplotData'.points)
    /\ categories' = PointNames(boxplotData'.points)
    /\ categoriesLength' = Len(categories')
    /\ RenderMemos
    /\ UNCHANGED <<appPhase, domVars>>

\* The window is resized: only the chart holds the container size, so App
\* does not render.
HostResize(offsetWidth, offsetHeight) ==
    /\ appView = "chart"
    /\ Resize(offsetWidth, offsetHeight)

\* The host delivers a configuration in which only style settings differ:
\* useConfig() returns a new object with the same source and mappings.
HostStyleChange(rotation, padding) ==
    /\ configId < MaxNotifications
    /\ configId' = configId + 1
    /\ attributeLabelRotation' = rotation
    /\ chartPadding' = padding
    /\ UNCHANGED <<config, sigmaData, sigmaDataId, attributeAxisFontSize,
                   containerWidth, containerHeight>>
    /\ AppRerender

\* The host delivers new data of the source: useElementData() returns a new
\* object.
HostDataChange(data) ==
    /\ sigmaDataId < MaxNotifications
    /\ sigmaDataId' = sigmaDataId + 1
    /\ sigmaData' = data
    /\ UNCHANGED <<config, configId, attributeLabelRotation, attributeAxisFontSize, chartPadding,
                   containerWidth, containerHeight>>
    /\ AppRerender

NextHost ==
    \/ \E w \in ChartWidths, h \in ChartHeights : HostResize(w, h)
    \/ \E r \in RotationValues, p \in ChartPaddings : HostStyleChange(r, p)
    \/ \E data \in HostDataSets : HostDataChange(data)
SpecHost == InitHost /\ [][NextHost]_vars

\* The chart has rendered on rows whose boxes are collapsed.
InitQuartiles ==
    /\ boxplotValues \in QuartileDataSets
    /\ categories = ChartCategories(boxplotValues)
    /\ categoriesLength = Len(categories)
    /\ attributeLabelRotation = 0
    /\ attributeAxisFontSize = 12
    /\ chartPadding = Rat(10, 1)
    /\ containerWidth = 1000
    /\ containerHeight = 600
    /\ axisPhase = "memo"
    /\ axisDeps = AxisDeps(boxplotValues)
    /\ yAxisConfig = ComputeYAxisConfig(boxplotValues)
    /\ measureAxisConfig = ComputeMeasureAxisConfig(boxplotValues)
    /\ formatterPhase = "memo"
    /\ formatterDeps = FormatterDeps(categoriesLength, attributeLabelRotation,
                            attributeAxisFontSize, chartPadding, containerWidth, containerHeight)
    /\ formatter = createSmartTruncationFormatter(categoriesLength, attributeLabelRotation,
                        attributeAxisFontSize, chartPadding, containerWidth, containerHeight)
    /\ label = UndefinedLabel
    /\ formattedFirst = Str(<<>>)
    /\ formattedSecond = Str(<<>>)
    /\ reformattedFirst = Str(<<>>)
    /\ reformattedSecond = Str(<<>>)
    /\ orientation = "vertical"
    /\ tooltipPhase = "idle"
    /\ tooltipParams = NoParams
    /\ tooltipFirst = EmptyTooltip
    /\ tooltipSecond = EmptyTooltip
    /\ NiceIdle
    /\ AppIdle
    /\ ExtraIdle

\* The chart is given the same rows but for q1, median and q3 of row i.
QuartileChange(i, triple) ==
    /\ i \in 1 .. Len(boxplotValues)
    /\ boxplotValues' = [boxplotValues EXCEPT
                             ![i] = <<boxplotValues[i][1], triple[1], triple[2], triple[3],
                                      boxplotValues[i][5]>>]
    /\ UNCHANGED <<categories, categoriesLength, attributeLabelRotation, attributeAxisFontSize,
                   chartPadding, containerWidth, containerHeight>>
    /\ Render

NextQuartiles ==
    \E i \in 1 .. MaxRows :
        /\ i <= Len(boxplotValues)
        /\ \E triple \in QuartileTriples(boxplotValues[i][1], boxplotValues[i][5]) :
               QuartileChange(i, triple)
SpecQuartiles == InitQuartiles /\ [][NextQuartiles]_vars

\* No chart component has been mounted yet.
InitDom ==
    /\ AxisIdle
    /\ NiceIdle
    /\ FormatterIdle
    /\ TooltipIdle
    /\ AppIdle
    /\ MemoIdle
    /\ ExtraIdle

\* The redraw effect runs again: the cleanup of its last run clears the
\* timeout that run scheduled, and with a chart in chartRef a new timeout is
\* scheduled.
EffectRerun(owner, ready) ==
    /\ effectRuns' = effectRuns + 1
    /\ LET cleared == ClearTimeout(timers, effectTimer)
           timer == [instance |-> owner, kind |-> "effect", run |-> effectRuns + 1]
       IN  IF ready
           THEN timers' = cleared \cup {timer} /\ effectTimer' = timer
           ELSE timers' = cleared /\ effectTimer' = NoTimer

\* A chart component is mounted on the given data in a container of the
\* given size: it renders, its mount effect records the size and registers
\* updateDimensions, and its redraw effect runs with no chart in chartRef.
Mount(values, offsetWidth, offsetHeight) ==
    /\ ~mounted
    /\ instance < MaxInstances
    /\ effectRuns < MaxEffectRuns
    /\ instance' = instance + 1
    /\ mounted' = TRUE
    /\ chartReady' = FALSE
    /\ boxplotValues' = values
    /\ categories' = ChartCategories(values)
    /\ categoriesLength' = Len(categories')
    /\ containerWidth' = offsetWidth
    /\ containerHeight' = offsetHeight
    /\ UNCHANGED <<attributeLabelRotation, attributeAxisFontSize, chartPadding>>
    /\ RenderMemos
    /\ listeners' = listeners \cup {[instance |-> instance', handler |-> "updateDimensions"]}
    /\ EffectRerun(instance + 1, FALSE)
    /\ UNCHANGED <<lastFired, appVars, hostVars>>

\* onChartReady: the chart is kept in chartRef, handleResize is registered
\* and the initial redraw is scheduled.
ChartReady ==
    /\ mounted
    /\ ~chartReady
    /\ chartReady' = TRUE
    /\ listeners' = listeners \cup {[instance |-> instance, handler |-> "handleResize"]}
    /\ timers' = timers \cup {[instance |-> instance, kind |-> "ready", run |-> effectRuns]}
    /\ UNCHANGED <<instance, mounted, effectTimer, effectRuns, lastFired,
                   axisVars, niceVars, formatterVars, tooltipVars, appVars, memoVars, hostVars>>

\* The window is resized to a new container size: updateDimensions records
\* it, the component renders and the redraw effect runs again.
DomResize(offsetWidth, offsetHeight) ==
    /\ mounted
    /\ [instance |-> instance, handler |-> "updateDimensions"] \in listeners
    /\ <<offsetWidth, offsetHeight>> # <<containerWidth, containerHeight>>
    /\ effectRuns < MaxEffectRuns
    /\ containerWidth' = offsetWidth
    /\ containerHeight' = offsetHeight
    /\ UNCHANGED <<boxplotValues, categories, categoriesLength, attributeLabelRotation,
                   attributeAxisFontSize, chartPadding>>
    /\ RenderMemos
    /\ EffectRerun(instance, chartReady)
    /\ UNCHANGED <<instance, mounted, chartReady, listeners, lastFired, appVars, hostVars>>

\* The mounted chart is given other data: it renders and the redraw effect
\* runs again.
DomDataChange(values) ==
    /\ mounted
    /\ values # boxplotValues
    /\ effectRuns < MaxEffectRuns
    /\ boxplotValues' = values
    /\ categories' = ChartCategories(values)
    /\ categoriesLength' = Len(categories')
    /\ UNCHANGED <<attributeLabelRotation, attributeAxisFontSize, chartPadding,
                   containerWidth, containerHeight>>
    /\ RenderMemos
    /\ EffectRerun(instance, chartReady)
    /\ UNCHANGED <<instance, mounted, chartReady, listeners, lastFired, appVars, hostVars>>

\* A pending timeout fires and the chart is redrawn.
TimerFires(timer) ==
    /\ timer \in timers
    /\ timers' = timers \ {timer}
    /\ lastFired' = [timer |-> timer, at |-> effectRuns,
                     live |-> mounted /\ timer.instance = instance]
    /\ UNCHANGED <<instance, mounted, chartReady, listeners, effectTimer, effectRuns,
                   axisVars, niceVars, formatterVars, tooltipVars, appVars, memoVars, hostVars>>

\* The chart component unmounts: the cleanups of its effects run.
Unmount ==
    /\ mounted
    /\ mounted' = FALSE
    /\ chartReady' = FALSE
    /\ listeners' = listeners \ {[instance |-> instance, handler |-> "updateDimensions"]}
    /\ timers' = ClearTimeout(timers, effectTimer)
    /\ effectTimer' = NoTimer
    /\ UNCHANGED <<instance, effectRuns, lastFired,
                   axisVars, niceVars, formatterVars, tooltipVars, appVars, memoVars, hostVars>>

NextDom ==
    \/ \E values \in DomDataSets, w \in ChartWidths, h \in ChartHeights : Mount(values, w, h)
    \/ ChartReady
    \/ \E w \in ChartWidths, h \in ChartHeights : DomResize(w, h)
    \/ \E values \in DomDataSets : DomDataChange(values)
    \/ \E timer \in timers : TimerFires(timer)
    \/ Unmount
SpecDom == InitDom /\ [][NextDom]_vars

---------------------------------------------------------------------------
(* Properties of the axis range (SpecAxis) *)

FiniteMins == {x \in {boxplotValues[i][1] : i \in 1 .. Len(boxplotValues)} : isFinite(x)}
FiniteMaxs == {x \in {boxplotValues[i][5] : i \in 1 .. Len(boxplotValues)} : isFinite(x)}

\* The data has a finite global min and a finite global max.
HasExtremes == FiniteMins # {} /\ FiniteMaxs # {}

DataMin == CHOOSE m \in FiniteMins : \A x \in FiniteMins : m.v <= x.v
DataMax == CHOOSE m \in FiniteMaxs : \A x \in FiniteMaxs : m.v >= x.v

AxisDone == axisPhase = "memo"

\* max(range * 0.08, max(range * 0.03, 1)) for range = DataMax - DataMin.
RangePadding ==
    LET range == Sub(DataMax, DataMin) IN
    MathMax(MulLit(range, 8, 100), MathMax(MulLit(range, 3, 100), Num(1)))

\* max(|v| * 0.08, 1) for v = DataMax.
ConstantPadding == MathMax(MulLit(MathAbs(DataMax), 8, 100), Num(1))

\* lo, forced to 0 when the data is non-negative and lo is negative.
ClampedAtZero(lo) ==
    IF DataMin.v >= 0 /\ Lt(lo, Num(0)) THEN Num(0) ELSE lo

\* C1: with rounding, the axis range covers the data: max >= globalMax and
\* min <= globalMin whenever both extremes exist.
C1_RoundedRangeCoversData ==
    (AxisDone /\ HasExtremes) =>
        /\ Ge(measureAxisConfig.max, DataMax)
        /\ Le(measureAxisConfig.min, DataMin)

\* C2: for data with globalMin >= 0 the axis minimum is >= 0, without and
\* with rounding.
C2_NoNegativeFloor ==
    (AxisDone /\ HasExtremes /\ DataMin.v >= 0) =>
        /\ Ge(yAxisConfig.min, Num(0))
        /\ Ge(measureAxisConfig.min, Num(0))

\* C2 witness: non-negative data whose padded minimum is negative, clamped.
C2_Witness ==
    /\ AxisDone /\ HasExtremes /\ DataMin.v >= 0
    /\ DataMax.v > DataMin.v
    /\ Lt(Sub(DataMin, RangePadding), Num(0))
    /\ yAxisConfig.min = Num(0)
    /\ measureAxisConfig.min = Num(0)

\* C5: for a non-zero range the range before rounding is
\* [globalMin - p, globalMax + p], p = max(range * 0.08, max(range * 0.03, 1)),
\* the minimum forced to 0 for non-negative data; the second component
\* rounds exactly this range.
C5_PaddedRange ==
    (AxisDone /\ HasExtremes /\ DataMax # DataMin) =>
        /\ yAxisConfig.min = ClampedAtZero(Sub(DataMin, RangePadding))
        /\ yAxisConfig.max = Add(DataMax, RangePadding)
        /\ measureAxisConfig.min = roundToNiceNumber(yAxisConfig.min, FALSE)
        /\ measureAxisConfig.max = roundToNiceNumber(yAxisConfig.max, TRUE)

\* C5 witness: the documented example, p = 8 and the range [0, 108].
C5_Witness ==
    /\ AxisDone
    /\ boxplotValues = << <<Num(0), Num(10), Num(20), Num(30), Num(40)>>,
                          <<Num(5), Num(15), Num(25), Num(35), Num(100)>> >>
    /\ RangePadding = Num(8)
    /\ yAxisConfig = [min |-> Num(0), max |-> Num(108)]

\* C6: for constant data v the range before rounding is [v - p, v + p],
\* p = max(|v| * 0.08, 1), the minimum forced to 0 for v >= 0.
C6_ConstantDataPadding ==
    (AxisDone /\ HasExtremes /\ DataMax = DataMin) =>
        /\ yAxisConfig.min = ClampedAtZero(Sub(DataMin, ConstantPadding))
        /\ yAxisConfig.max = Add(DataMax, ConstantPadding)
        /\ measureAxisConfig.min = roundToNiceNumber(yAxisConfig.min, FALSE)
        /\ measureAxisConfig.max = roundToNiceNumber(yAxisConfig.max, TRUE)

\* C6 witness: the documented example, padding 1 and the range [4, 6].
C6_Witness ==
    /\ AxisDone
    /\ boxplotValues = << <<Num(5), Num(5), Num(5), Num(5), Num(5)>> >>
    /\ ConstantPadding = Num(1)
    /\ yAxisConfig = [min |-> Num(4), max |-> Num(6)]

IsRange(cfg) == isFinite(cfg.min) /\ isFinite(cfg.max)

\* C7: both memos are unset/unset for empty data and for data without a
\* finite extreme, and otherwise have both ends set to finite numbers.
C7_BothFiniteOrBothUnset ==
    AxisDone =>
        IF HasExtremes
        THEN IsRange(yAxisConfig) /\ IsRange(measureAxisConfig)
        ELSE yAxisConfig = Unset /\ measureAxisConfig = Unset

---------------------------------------------------------------------------
(* Properties of roundToNiceNumber (SpecNice) *)

NiceDigits == {1, 2, 5, 10}

NiceReturned == nicePhase = "returned" /\ isFinite(niceValue)

\* The exponent e with 10^e <= n < 10^(e+1), n >= 1 in thousandths.
ExponentOf(n) ==
    CHOOSE e \in 0 .. Log10Floor(MaxFinite) : Pow10(e) <= n /\ n < Pow10(e + 1)

\* The smallest d in {1, 2, 5, 10} with d >= n / 10^e.
DigitOf(n, e) ==
    CHOOSE d \in NiceDigits :
        /\ d * Pow10(e) >= n
        /\ \A c \in NiceDigits : c * Pow10(e) >= n => d <= c

\* n is d * 10^k for some d in {1, 2, 5, 10}.
IsNiceNumber(n) ==
    \E e \in 0 .. Log10Floor(MaxFinite) : \E d \in NiceDigits : n = d * Pow10(e)

\* C3: for x > 0, rounding up returns d * 10^k, k = floor(log10(x)) and d
\* the smallest of 1, 2, 5, 10 not below the mantissa x / 10^k; a mantissa of
\* exactly 1, 2 or 5 returns x itself.
C3_RoundUpIsSmallestDigit ==
    (NiceReturned /\ niceRoundUp /\ niceValue.v > 0) =>
        LET k == ExponentOf(niceValue.v) IN
        /\ niceResult = Norm(DigitOf(niceValue.v, k) * Pow10(k))
        /\ niceValue.v \in {Pow10(k), 2 * Pow10(k), 5 * Pow10(k)} => niceResult = niceValue

\* C3 witness: roundToNiceNumber(108, true) = 200.
C3_Witness ==
    /\ NiceReturned /\ niceRoundUp
    /\ niceValue = Num(108)
    /\ niceResult = Num(200)

\* C4: rounding a non-zero x down returns a nice number d * 10^k (with the
\* sign of x) that is <= x.
C4_RoundDownIsNiceAndBelow ==
    (NiceReturned /\ ~niceRoundUp /\ niceValue.v # 0) =>
        /\ isFinite(niceResult) => IsNiceNumber(MathAbs(niceResult).v)
        /\ Le(niceResult, niceValue)

---------------------------------------------------------------------------
(* Properties of the truncation formatter (SpecFormatter) *)

Clamp(lo, hi, x) == IF x < lo THEN lo ELSE IF x > hi THEN hi ELSE x

\* What the formatter with budget maxChars owes for the label of the last call.
FormatterContract(out, maxChars) ==
    IF ~label.defined \/ Len(label.chars) = 0
    THEN out = Str(<<>>)
    ELSE IF Len(label.chars) > maxChars
         THEN /\ out.defined
              /\ Len(out.chars) = maxChars
              /\ SubSeq(out.chars, 1, maxChars - 1) = SubSeq(label.chars, 1, maxChars - 1)
              /\ out.chars[maxChars] = "U+2026"
         ELSE out = label

\* C8: the formatter maps an empty or undefined label to "", a label longer
\* than maxChars to its first maxChars - 1 characters plus one ellipsis
\* character (length exactly maxChars), and any other label to itself, in
\* both components.
C8_FormatterContract ==
    (formatterPhase = "called" /\ ~formatter.identity) =>
        /\ FormatterContract(formattedFirst, formatter.maxCharsPerCategory)
        /\ FormatterContract(formattedSecond, formatter.maxCharsPerCategory)

\* C9: with the labels rotated by 90 degrees the budget is
\* floor(containerHeight * (1 - 0.15) * 0.28 / (fontSize * 1.1)) clamped into
\* [10, 50].  In integers: 0.85 * 0.28 / 1.1 = 85 * 28 * 10 / (100 * 100 * 11).
C9_RotatedBudget ==
    (formatterPhase # "props" /\ categoriesLength >= 1 /\ attributeLabelRotation = 90) =>
        /\ formatter.maxCharsPerCategory =
               Clamp(10, 50, (containerHeight * 85 * 28 * 10)
                                 \div (attributeAxisFontSize * 11 * 100 * 100))
        /\ formatter.maxCharsPerCategory \in 10 .. 50

\* C9 witness: a rotated layout whose budget lies strictly between the clamps.
C9_Witness ==
    /\ formatterPhase = "memo"
    /\ categoriesLength >= 1
    /\ attributeLabelRotation = 90
    /\ formatter.maxCharsPerCategory > 10
    /\ formatter.maxCharsPerCategory < 50

\* C10: with horizontal labels the budget is
\* floor(((containerWidth * (100 - 2 * chartPadding) / 100) / categoryCount)
\*       * 1.10 / (fontSize * 0.65)) clamped into [6, 100].  In integers, with
\* chartPadding = p.n / p.d and 1.10 / 0.65 = 22 / 13:
\* containerWidth * (100 * p.d - 2 * p.n) * 22 / (p.d * 100 * categoryCount * fontSize * 13).
C10_HorizontalBudget ==
    (formatterPhase # "props" /\ categoriesLength >= 1 /\ attributeLabelRotation = 0) =>
        /\ formatter.maxCharsPerCategory =
               Clamp(6, 100,
                     (containerWidth * (100 * chartPadding.d - 2 * chartPadding.n) * 22)
                         \div (chartPadding.d * 100 * categoriesLength
                                   * attributeAxisFontSize * 13))
        /\ formatter.maxCharsPerCategory \in 6 .. 100

\* C10 witness: a horizontal layout with several categories and some padding
\* whose budget lies strictly between the clamps.
C10_Witness ==
    /\ formatterPhase = "memo"
    /\ categoriesLength >= 2
    /\ attributeLabelRotation = 0
    /\ chartPadding.n > 0
    /\ formatter.maxCharsPerCategory > 6
    /\ formatter.maxCharsPerCategory < 100

---------------------------------------------------------------------------
(* Properties of the formatter, continued (SpecFormatter) *)

\* C11: with an empty category list the formatter is the identity on label
\* strings: every string label is returned as it is, however long, in both
\* components.
C11_EmptyCategoriesIdentity ==
    (formatterPhase \in {"called", "recalled"} /\ categoriesLength = 0 /\ label.defined) =>
        /\ formatter.identity
        /\ formattedFirst = label
        /\ formattedSecond = label

\* C11 witness: with no categories and rotated labels, a label of the greatest
\* length offered came back whole.
C11_Witness ==
    /\ formatterPhase = "called"
    /\ categoriesLength = 0
    /\ attributeLabelRotation = 90
    /\ label.defined
    /\ Len(label.chars) = MaxLabelLen
    /\ formattedFirst = label
    /\ formattedSecond = label

\* C12: formatting is idempotent: the formatter applied to its own result
\* returns that result, in both components; and a label that ends in the
\* ellipsis character and is no longer than the budget is returned unchanged.
C12_Idempotent ==
    /\ formatterPhase = "recalled" =>
           /\ reformattedFirst = formattedFirst
           /\ reformattedSecond = formattedSecond
    /\ (/\ formatterPhase \in {"called", "recalled"}
        /\ ~formatter.identity
        /\ label.defined
        /\ Len(label.chars) >= 1
        /\ Len(label.chars) <= formatter.maxCharsPerCategory
        /\ label.chars[Len(label.chars)] = "U+2026") =>
           /\ formattedFirst = label
           /\ formattedSecond = label

\* C12 witness: a label that was truncated in both components went through
\* the formatter a second time.
C12_Witness ==
    /\ formatterPhase = "recalled"
    /\ ~formatter.identity
    /\ Len(label.chars) > formatter.maxCharsPerCategory
    /\ formattedFirst # label
    /\ formattedSecond # label
    /\ reformattedFirst = formattedFirst
    /\ reformattedSecond = formattedSecond

---------------------------------------------------------------------------
(* Properties of the tooltip (SpecTooltip) *)

\* The last tooltip call carried the zero-based index of a category.
TooltipInRange ==
    /\ tooltipPhase = "shown"
    /\ tooltipParams.dataIndex.defined
    /\ tooltipParams.dataIndex.index + 1 \in 1 .. Len(categories)

TooltipSeriesEvent ==
    tooltipParams.componentType = "series" /\ tooltipParams.seriesType = "boxplot"

TooltipAxisEvent(attributeAxisType) ==
    tooltipParams.componentType = attributeAxisType
        /\ tooltipParams.componentSubType = "category"

TooltipCategory == categories[tooltipParams.dataIndex.index + 1]

\* C13: for an attribute-axis event or a box-plot series event that carries
\* the index i of a category, the tooltip of either component shows
\* categories[i] whole, whatever the truncation budget and whatever name the
\* event carries.
C13_TooltipShowsCategory ==
    TooltipInRange =>
        /\ (TooltipAxisEvent("xAxis") \/ TooltipSeriesEvent) =>
               tooltipFirst.name = TooltipCategory
        /\ (TooltipAxisEvent(AttributeAxisType(orientation)) \/ TooltipSeriesEvent) =>
               tooltipSecond.name = TooltipCategory

\* C13 witness: a series event on a category whose axis label is truncated,
\* carrying the truncated text as its name, got the whole category.
C13_Witness ==
    /\ TooltipInRange
    /\ TooltipSeriesEvent
    /\ ~formatter.identity
    /\ Len(TooltipCategory.chars) > formatter.maxCharsPerCategory
    /\ tooltipParams.name = ApplyFormatter(formatter, TooltipCategory, EllipsisSecond)
    /\ tooltipParams.dataIndex.index >= 1
    /\ tooltipSecond = [kind |-> "box", name |-> TooltipCategory]
    /\ tooltipFirst = [kind |-> "box", name |-> TooltipCategory]

---------------------------------------------------------------------------
(* Properties of the data transform (SpecApp) *)

\* App has rendered on a source with every mapping set and every mapped
\* column present.
TransformRan ==
    /\ appPhase = "rendered"
    /\ ~MappingUnset(config)
    /\ ~ColumnMissing(sigmaData, config)

NumRows == Len(sigmaData[config.attribute].cells)
NumericFields == {"min", "q1", "median", "q2", "max"}

\* Row i survives: its five numeric cells coerce to numbers other than NaN
\* and its attribute cell is neither null nor undefined.
Survives(i) ==
    LET row == SourceRow(sigmaData, config, i) IN
    /\ \A f \in NumericFields : ToNumber(row[f]).t # "nan"
    /\ row.attribute.t \notin {"null", "undefined"}

SurvivingRows == {i \in 1 .. NumRows : Survives(i)}

\* The data point the rows of the source owe for row i.
Expected(i) ==
    LET row == SourceRow(sigmaData, config, i) IN
    [name |-> Str(CellToString(row.attribute)),
     value |-> <<ToNumber(row.min), ToNumber(row.q1), ToNumber(row.median),
                 ToNumber(row.q2), ToNumber(row.max)>>]

HasNullNumber(i) ==
    \E f \in NumericFields : SourceRow(sigmaData, config, i)[f].t = "null"

\* C15: a row with null in any of its five numeric cells is dropped, as a
\* row with a NaN cell or a null attribute is: the emitted points are those
\* of the surviving rows that have no null numeric cell.
C15_NullNumberDropped ==
    TransformRan =>
        /\ Len(boxplotData.points)
               = Cardinality({i \in SurvivingRows : ~HasNullNumber(i)})
        /\ \A j \in 1 .. Len(boxplotData.points) :
               \E i \in SurvivingRows : ~HasNullNumber(i) /\ boxplotData.points[j] = Expected(i)

\* The j-th surviving row, counted from 1 in source order.
RECURSIVE NthSurviving(_, _)
NthSurviving(j, from) ==
    IF Survives(from)
    THEN IF j = 1 THEN from ELSE NthSurviving(j - 1, from + 1)
    ELSE NthSurviving(j, from + 1)

\* C16: the output is the surviving rows in source order: its j-th element
\* has the label String(attribute[i]) and the value
\* [min[i], q1[i], median[i], q2[i], max[i]] (as numbers) of the j-th
\* surviving row i.
C16_SurvivingRowsInOrder ==
    TransformRan =>
        /\ Len(boxplotData.points) = Cardinality(SurvivingRows)
        /\ \A j \in 1 .. Len(boxplotData.points) :
               LET i == NthSurviving(j, 1)
                   row == SourceRow(sigmaData, config, i)
               IN  /\ boxplotData.points[j].name = Str(CellToString(row.attribute))
                   /\ boxplotData.points[j].value =
                          <<ToNumber(row.min), ToNumber(row.q1), ToNumber(row.median),
                            ToNumber(row.q2), ToNumber(row.max)>>

\* C16 witness: two rows survived, the first with a number for its name and
\* the second with a numeric string for its upper quartile.
C16_Witness ==
    /\ TransformRan
    /\ NumRows = 2
    /\ sigmaData[config.attribute].cells[1] = NumberCell(Fin(-((5 * Scale) \div 2)))
    /\ sigmaData[config.quartile2].cells[2] = StringCell(<<"7">>)
    /\ boxplotData.points =
           <<[name |-> Str(<<"-", "2", ".", "5">>),
              value |-> <<Num(1), Num(2), Num(3), Num(4), Num(5)>>],
             [name |-> Str(<<"a", "b">>),
              value |-> <<Num(2), Num(3), Num(4), Num(7), Num(6)>>]>>

\* C17: when the source or one of the six mappings is unset, or one of the
\* six mapped column arrays is absent, the transform returns the empty list
\* and raises no error.
C17_MissingGivesEmpty ==
    (appPhase = "rendered" /\ (MappingUnset(config) \/ ColumnMissing(sigmaData, config))) =>
        boxplotData = Returned(<<>>)

\* C17 witness: every mapping is set, the attribute column has arrived, the
\* median column has not, and the transform returned the empty list.
C17_Witness ==
    /\ appPhase = "rendered"
    /\ config = FullConfig
    /\ sigmaData[config.attribute].present
    /\ ~sigmaData[config.median].present
    /\ boxplotData = Returned(<<>>)

\* One of the six column mappings is not set.
SomeMappingUnset ==
    \/ config.attribute = "" \/ config.minValue = "" \/ config.maxValue = ""
    \/ config.median = "" \/ config.quartile1 = "" \/ config.quartile2 = ""

\* C18 as stated: whenever the data set is empty because the source or a
\* required mapping is unset or a mapped column array is missing, App shows
\* the configure-mapping prompt and no other empty-state message.
C18_AlwaysConfigurePrompt ==
    (appPhase = "rendered" /\ (MappingUnset(config) \/ ColumnMissing(sigmaData, config))) =>
        appView = ConfigureMappingPrompt

\* C18 amended: with the source set and one of the six mappings unset App
\* shows the configure-mapping prompt; with the source unset it shows the
\* select-source prompt, whatever the mappings; and with everything set but
\* a mapped column array missing it shows the no-data message.
C18_PromptBySourceThenMappings ==
    (appPhase = "rendered" /\ (MappingUnset(config) \/ ColumnMissing(sigmaData, config))) =>
        appView = IF config.source = "" THEN SelectSourcePrompt
                  ELSE IF SomeMappingUnset THEN ConfigureMappingPrompt
                  ELSE NoDataMessage

\* C18 witness: the source is set, the median mapping alone is not, every
\* column has arrived, and App shows the configure-mapping prompt.
C18_Witness ==
    /\ appPhase = "rendered"
    /\ config = [FullConfig EXCEPT !.median = ""]
    /\ \A id \in ColumnIds : sigmaData[id].present
    /\ boxplotData = Returned(<<>>)
    /\ appView = ConfigureMappingPrompt

---------------------------------------------------------------------------
(* Properties of the mounted chart (SpecChart) *)

\* C20: after any sequence of resize, configuration-change and data-change
\* notifications the derived values in use are those of the current inputs:
\* the formatter is the one built from the current category count, rotation,
\* font size, padding and recorded container size, and the axis range of
\* either component is the one computed from the current quintuples.
C20_DerivedValuesFresh ==
    /\ categoriesLength = Len(boxplotValues)
    /\ formatter = createSmartTruncationFormatter(categoriesLength, attributeLabelRotation,
                       attributeAxisFontSize, chartPadding, containerWidth, containerHeight)
    /\ measureAxisConfig = ComputeMeasureAxisConfig(boxplotValues)
    /\ yAxisConfig = ComputeYAxisConfig(boxplotValues)

\* C20 witness: after a resize that changed the height only, with rotated
\* labels, the budget in use is the one of the new height and not the one of
\* the initial height.
C20_Witness ==
    /\ categoriesLength >= 1
    /\ attributeLabelRotation = 90
    /\ containerWidth = 1000
    /\ containerHeight # 600
    /\ formatter.maxCharsPerCategory
           = MaxCharsVertical(attributeLabelRotation, attributeAxisFontSize, containerHeight)
    /\ formatter.maxCharsPerCategory
           # MaxCharsVertical(attributeLabelRotation, attributeAxisFontSize, 600)
    /\ measureAxisConfig = ComputeMeasureAxisConfig(boxplotValues)

---------------------------------------------------------------------------
(* Properties of the mounted plugin (SpecHost) *)

\* C21: across resize, style-change and data-change notifications the
\* transform is run again only when the source data changes: a step that
\* leaves the data object as it was does not run the boxplotData memo callback.
C21_TransformOnlyOnDataChange ==
    [][transformRuns' # transformRuns => sigmaDataId' # sigmaDataId]_vars

---------------------------------------------------------------------------
(* Properties of the axis range, continued (SpecAxis) *)

\* Every quintuple has finite whisker ends with element[0] <= element[4].
WhiskersOrdered ==
    \A i \in 1 .. Len(boxplotValues) :
        /\ isFinite(boxplotValues[i][1])
        /\ isFinite(boxplotValues[i][5])
        /\ Le(boxplotValues[i][1], boxplotValues[i][5])

\* C22: for a non-empty data set whose quintuples all have finite whisker
\* ends with element[0] <= element[4], the range of the second component
\* (the one with nice-number rounding) has min strictly below max.
C22_RangeNotEmpty ==
    (AxisDone /\ Len(boxplotValues) >= 1 /\ WhiskersOrdered) =>
        /\ measureAxisConfig.min.t # "undefined"
        /\ measureAxisConfig.max.t # "undefined"
        /\ Lt(measureAxisConfig.min, measureAxisConfig.max)

---------------------------------------------------------------------------
(* Properties of the axis range under quartile changes (SpecQuartiles) *)

\* The five values of row i are finite and ordered.
RowOrdered(i) ==
    /\ \A k \in 1 .. 5 : isFinite(boxplotValues[i][k])
    /\ \A k \in 1 .. 4 : Le(boxplotValues[i][k], boxplotValues[i][k + 1])

\* The range before rounding, which is the range of the first component.
PreRoundingMin == CalculatedMin(GlobalMin(boxplotValues), GlobalMax(boxplotValues))
PreRoundingMax == CalculatedMax(GlobalMin(boxplotValues), GlobalMax(boxplotValues))

\* The whisker ends of every row are the same before and after the step.
WhiskersUnchanged ==
    /\ Len(boxplotValues') = Len(boxplotValues)
    /\ \A i \in 1 .. Len(boxplotValues) :
           /\ boxplotValues'[i][1] = boxplotValues[i][1]
           /\ boxplotValues'[i][5] = boxplotValues[i][5]

\* C23: the range depends on element[0] and element[4] only: a change of
\* q1, median or q3 of a row leaves the range of either component as it was;
\* and when every row is finite and ordered, all five values of every row
\* lie within [calculatedMin, calculatedMax], the range before rounding.
C23_RangeFromWhiskersOnly ==
    /\ [][WhiskersUnchanged =>
              /\ yAxisConfig' = yAxisConfig
              /\ measureAxisConfig' = measureAxisConfig]_vars
    /\ []((Len(boxplotValues) >= 1 /\ \A i \in 1 .. Len(boxplotValues) : RowOrdered(i)) =>
              /\ yAxisConfig = [min |-> PreRoundingMin, max |-> PreRoundingMax]
              /\ \A i \in 1 .. Len(boxplotValues) : \A k \in 1 .. 5 :
                     /\ Le(PreRoundingMin, boxplotValues[i][k])
                     /\ Le(boxplotValues[i][k], PreRoundingMax))

\* C23 witness: two rows, the first with its box spread over the whiskers
\* after a change and ordered, the second still collapsed, and the range of
\* the first component contains the changed quartiles.
C23_Witness ==
    /\ Len(boxplotValues) = 2
    /\ RowOrdered(1)
    /\ RowOrdered(2)
    /\ Lt(boxplotValues[1][1], boxplotValues[1][3])
    /\ Lt(boxplotValues[1][3], boxplotValues[1][5])
    /\ boxplotValues[2] = CollapsedRow(<<Num(0), Num(40)>>)
    /\ Le(yAxisConfig.min, boxplotValues[1][2])
    /\ Le(boxplotValues[1][4], yAxisConfig.max)

---------------------------------------------------------------------------
(* Properties of listeners and timeouts (SpecDom) *)

\* C24: after any sequence of mount, chart-ready, resize and unmount events
\* every 'resize' listener on window belongs to the mounted component: none
\* registered by an unmounted component remains.
C24_NoListenerOfUnmounted ==
    \A l \in listeners : mounted /\ l.instance = instance

\* The pending timeouts the redraw effect scheduled.
EffectTimers == {t \in timers : t.kind = "effect"}

\* C25: at most one timeout of the redraw effect is pending at any time, it
\* is the one of the effect's last run in the mounted component, none is
\* pending once the component is unmounted, and a timeout of the effect that
\* fires is never one superseded by a later run.
C25_OneRedrawPending ==
    /\ Cardinality(EffectTimers) <= 1
    /\ \A t \in EffectTimers :
           mounted /\ t.instance = instance /\ t.run = effectRuns /\ t = effectTimer
    /\ lastFired.timer.kind = "effect" =>
           lastFired.live /\ lastFired.timer.run = lastFired.at

\* C25 witness: the redraw effect has run again with a timeout pending, the
\* timeout of its last run has fired, and the run after that has one pending.
C25_Witness ==
    /\ mounted
    /\ chartReady
    /\ effectRuns = MaxEffectRuns
    /\ lastFired.timer.kind = "effect"
    /\ lastFired.timer.run = effectRuns - 1
    /\ EffectTimers = {effectTimer}
    /\ effectTimer.run = effectRuns

---------------------------------------------------------------------------
(* The padding of a non-zero range (SpecAxis) *)

\* range = globalMax - globalMin of the data.
DataRange == Sub(DataMax, DataMin)

\* 12.5, the range of which 8% is 1.
TwelveAndAHalf == MulLit(Num(25), 1, 2)

\* max(range * 0.08, 1): the padding without the range * 0.03 term.
EightPercentOrOne == MathMax(MulLit(DataRange, 8, 100), Num(1))

\* C26: for every non-zero range the padding both components apply is
\* max(range * 0.08, 1): the range * 0.03 term never exceeds both other terms,
\* the padding is at least 1, and it is 8% of the range exactly when the
\* range is at least 12.5.
C26_PaddingEightPercentOrOne ==
    (AxisDone /\ HasExtremes /\ DataRange # Fin(0)) =>
        /\ Padding(DataMin, DataMax) = EightPercentOrOne
        /\ yAxisConfig.max = Add(DataMax, EightPercentOrOne)
        /\ yAxisConfig.min = ClampedAtZero(Sub(DataMin, EightPercentOrOne))
        /\ measureAxisConfig.max = roundToNiceNumber(Add(DataMax, EightPercentOrOne), TRUE)
        /\ ~(/\ Gt(MulLit(DataRange, 3, 100), MulLit(DataRange, 8, 100))
             /\ Gt(MulLit(DataRange, 3, 100), Num(1)))
        /\ Ge(EightPercentOrOne, Num(1))
        /\ (EightPercentOrOne = MulLit(DataRange, 8, 100)) <=> Ge(DataRange, TwelveAndAHalf)

\* C26 witness: a range between 1 / 0.3 and 12.5, where 3% and 8% of the
\* range are both below 1 and the padding applied is 1.
C26_Witness ==
    /\ AxisDone /\ HasExtremes
    /\ Gt(DataRange, Num(4)) /\ Lt(DataRange, TwelveAndAHalf)
    /\ Lt(MulLit(DataRange, 8, 100), Num(1))
    /\ yAxisConfig.max = Add(DataMax, Num(1))

====
